---- MODULE Spec2Model ----
(***************************************************************************)
(* Pass framework of oqd_compiler_infrastructure: PassBase's three-phase   *)
(* invocation, the rewriters Chain / FixedPoint / Filter, the walkers with *)
(* their rules, and the analysis cache shared by a tree of passes.         *)
(*                                                                         *)
(* Pass objects and cache objects live in two heaps (sequences indexed by  *)
(* object identity); a reference is an index, 0 is Python's None.  The     *)
(* interpreter's call stack is explicit: every frame is one running        *)
(* PassBase.__call__.                                                      *)
(***************************************************************************)
EXTENDS Integers, Sequences, FiniteSets, TLC

VARIABLES
    heap,        \* pass objects, by identity
    caches,      \* AnalysisCache objects, by identity: each one is its store
    stack,       \* running __call__ frames, innermost last
    root,        \* the pass the user holds and invokes
    history,     \* the finished root invocations: input, output, and the
                 \* output of the last pass the root called
    arg,         \* the model the first root invocation received
    invocations, \* root invocations started so far
    log,         \* call/return events of the current root invocation
    store,       \* a free-standing AnalysisCache.store driven directly
    prevStore,   \* that store before the last direct operation
    lastOp,      \* the last direct operation, its argument and its result
    walked       \* the last rule application or walk made directly on a
                 \* node: the rule, the walker, the node, what the rule saw
                 \* and what came back

vars == <<heap, caches, stack, root, history, arg, invocations, log,
          store, prevStore, lastOp, walked>>

passVars == <<heap, caches, stack, root, history, arg, invocations, log>>
cacheVars == <<store, prevStore, lastOp>>
walkVars == <<walked>>

-----------------------------------------------------------------------------
(* Bounds *)

MaxInt == 1
MaxIter == 2
MaxInvocations == 2
MaxStore == 3

-----------------------------------------------------------------------------
(* Sequence helpers *)

Range(s) == {s[i] : i \in DOMAIN s}

RECURSIVE Concat(_)
Concat(ss) == IF ss = <<>> THEN <<>> ELSE Head(ss) \o Concat(Tail(ss))

-----------------------------------------------------------------------------
(* Models: the IR of the test suites.  A node has a kind, an ordered list  *)
(* of children and, for an atomic int, its value.                          *)

None == [k |-> "None", c |-> <<>>, v |-> 0]
Atom(n) == [k |-> "int", c |-> <<>>, v |-> n]
MyInt(n) == [k |-> "MyInt", c |-> <<Atom(n)>>, v |-> 0]
MyAdd(l, r) == [k |-> "MyAdd", c |-> <<l, r>>, v |-> 0]

Inputs ==
    {Atom(n) : n \in 0..MaxInt} \cup {MyInt(n) : n \in 0..MaxInt}
    \cup {MyAdd(MyInt(a), MyInt(b)) : a \in 0..MaxInt, b \in 0..MaxInt}

-----------------------------------------------------------------------------
(* AnalysisCache and AnalysisResult *)

\* a value given where an analysis name is expected: a string, or an object
\* (a rule instance) that stands for the name of its class
Str(text) == [isStr |-> TRUE, text |-> text]
Obj(cls) == [isStr |-> FALSE, cls |-> cls]

AnalysisName(value) == IF value.isStr THEN value.text ELSE value.cls

\* AnalysisResult(name=..., data=...): valid defaults to True
AnalysisResult(name, data) == [name |-> AnalysisName(name), valid |-> TRUE, data |-> data]

\* variants of __getitem__ and invalidate that the properties must tell apart
GetItem_ValidOnly(st, idx) ==
    SelectSeq(st, LAMBDA entry : Str(entry.name) = idx /\ entry.valid)

Invalidate_Nothing(st, name) == st

Invalidate_AnyName(st, name) ==
    [i \in 1..Len(st) |-> [st[i] EXCEPT !.valid = FALSE]]

\* AnalysisCache.__getitem__: the index is compared as given
GetItem(st, idx) == SelectSeq(st, LAMBDA entry : Str(entry.name) = idx)

Invalidate(st, name) ==
    [i \in 1..Len(st) |->
        IF st[i].name = AnalysisName(name) /\ st[i].valid
        THEN [st[i] EXCEPT !.valid = FALSE]
        ELSE st[i]]

\* a variant that puts the new entry first
CacheAppend_Front(st, entry) == <<entry>> \o st

\* AnalysisCache.append
CacheAppend(st, entry) == Append(st, entry)

-----------------------------------------------------------------------------
(* The rules of tests/test_analysis.py *)

AnalysisRules == {"CountTerms", "CountAdds", "WalkOrder"}
RewriteRules == {"RequiresSingle", "RequiresMultiple", "RequiresPostWalk",
                 "RequiresPreWalk", "MySimplify"}
ConversionRules == {"MyEvaluate"}

\* analysis_requirements as declared: a bare class <<A>> or a pair <<A, Walker>>
DeclaredRequirements(cls) ==
    CASE cls = "RequiresSingle" -> << <<"CountTerms">> >>
      [] cls = "RequiresMultiple" -> << <<"CountTerms">>, <<"CountAdds">> >>
      [] cls = "RequiresPostWalk" -> << <<"WalkOrder">> >>
      [] cls = "RequiresPreWalk" -> << <<"WalkOrder", "Pre">> >>
      [] cls = "MyEvaluate" -> << <<"CountTerms">> >>
      [] cls = "MySimplify" -> << <<"CountTerms">> >>
      [] OTHER -> <<>>

ValidateAnalysisRequirement_AlwaysPost(value) == <<value[1], "Post">>

ValidateAnalysisRequirement(value) ==
    IF Len(value) = 2 THEN value ELSE <<value[1], "Post">>

Requirements(cls) ==
    [i \in DOMAIN DeclaredRequirements(cls) |->
        ValidateAnalysisRequirement(DeclaredRequirements(cls)[i])]

\* the per-kind handlers a rule class defines, and whether it has generic_map
Handlers(cls) ==
    CASE cls = "CountTerms" -> {"MyInt"}
      [] cls = "CountAdds" -> {"MyAdd"}
      [] cls = "MyEvaluate" -> {"MyInt", "MyAdd"}
      [] cls = "MySimplify" -> {"MyAdd"}
      [] cls = "ShapePrinter" -> {"Shape", "Circle", "Rectangle"}
      [] cls = "CustomRule" -> {"X", "Y", "Z", "int"}
      [] OTHER -> {}

HasGenericMap(cls) == cls \in {"WalkOrder", "PrintWalkOrder"}

\* the analyses a rule's own after_call hook invalidates
RuleInvalidates_None(cls) == <<>>

RuleInvalidates(cls) ==
    IF cls \in {"MyEvaluate", "MySimplify"} THEN <<Str("CountTerms")>> ELSE <<>>

\* MySimplify.map_MyAdd; a rewrite rule without handler for the node keeps it
MySimplifyMapMyAdd(model) ==
    IF model.c[1].k = "MyInt" /\ model.c[2].k = "MyInt"
    THEN MyInt(model.c[1].c[1].v + model.c[2].c[1].v)
    ELSE None

\* MyEvaluate.map_MyInt and MyEvaluate.map_MyAdd
MyEvaluateMapMyInt(model, operands) == model.c[1]
MyEvaluateMapMyAdd(model, operands) == Atom(operands[1].v + operands[2].v)

\* the fresh state of a rule object: CountTerms/CountAdds.N_terms,
\* WalkOrder.counter (both in n) and WalkOrder.walk_order
FreshAcc == [n |-> 0, walk_order |-> <<>>]

AnalysisData(cls, acc) ==
    IF cls = "WalkOrder"
    THEN [walk_order |-> acc.walk_order, counter |-> acc.n]
    ELSE [N_terms |-> acc.n]

-----------------------------------------------------------------------------
(* Rule dispatch and the walkers *)

KindChain(model) ==
    CASE model.k = "MyInt" -> <<"MyInt", "MyMath", "TypeReflectBaseModel",
                                "VisitableBaseModel", "BaseModel", "object">>
      [] model.k = "MyAdd" -> <<"MyAdd", "MyMath", "TypeReflectBaseModel",
                                "VisitableBaseModel", "BaseModel", "object">>
      [] model.k \in {"Circle", "Rectangle"} ->
            <<model.k, "Shape", "TypeReflectBaseModel", "VisitableBaseModel",
              "BaseModel", "object">>
      [] model.k = "Square" ->
            <<"Square", "Rectangle", "Shape", "TypeReflectBaseModel",
              "VisitableBaseModel", "BaseModel", "object">>
      [] model.k \in {"Shape", "Y", "N"} ->
            <<model.k, "TypeReflectBaseModel", "VisitableBaseModel", "BaseModel", "object">>
      [] model.k \in {"X", "A", "Z"} ->
            <<model.k, "VisitableBaseModel", "BaseModel", "object">>
      [] OTHER -> <<model.k, "object">>

\* a variant that takes the last kind of the chain with a handler
Dispatch_LeastSpecific(cls, model) ==
    LET chain == KindChain(model)
        hits == {i \in DOMAIN chain : chain[i] \in Handlers(cls)}
    IN  IF hits # {} THEN chain[CHOOSE i \in hits : \A j \in hits : i >= j]
        ELSE IF HasGenericMap(cls) THEN "generic_map"
        ELSE ""

\* the handler a rule selects for a node: the first kind of the chain with a
\* map_<Kind>, else generic_map, else "" (the benign default)
Dispatch(cls, model) ==
    LET chain == KindChain(model)
        hits == {i \in DOMAIN chain : chain[i] \in Handlers(cls)}
    IN  IF hits # {} THEN chain[CHOOSE i \in hits : \A j \in hits : i <= j]
        ELSE IF HasGenericMap(cls) THEN "generic_map"
        ELSE ""

\* a variant that hands on whatever map returned
CallResult_KeepsNone(model, mapped) == mapped

\* PassBase._call: a map that returns None keeps the input model
CallResult(model, mapped) == IF mapped = None THEN model ELSE mapped

\* one visit of an analysis rule: the handler updates the rule's own state
AnalysisVisit(cls, acc, model) ==
    LET h == Dispatch(cls, model)
    IN  CASE cls \in {"CountTerms", "CountAdds"} /\ h # "" ->
                [acc EXCEPT !.n = @ + 1]
          [] cls = "WalkOrder" /\ h = "generic_map" ->
                [acc EXCEPT !.walk_order = Append(@, <<acc.n, model>>),
                            !.n = @ + 1]
          [] OTHER -> acc

\* one visit of a rewrite rule, through PassBase._call
RewriteVisit(cls, model) ==
    LET h == Dispatch(cls, model)
    IN  CallResult(model,
            IF cls = "MySimplify" /\ h = "MyAdd" THEN MySimplifyMapMyAdd(model)
            ELSE None)

\* ShapePrinter.map_Shape, map_Circle, map_Rectangle: the text, as its
\* format and the values it interpolates
ShapePrinterMap(h, model) ==
    CASE h = "Circle" -> [k |-> "Circle with radius", c |-> <<model.c[1]>>, v |-> 0]
      [] h = "Rectangle" -> [k |-> "Rectangle", c |-> <<model.c[1], model.c[2]>>, v |-> 0]
      [] OTHER -> [k |-> "Unknown shape", c |-> <<>>, v |-> 0]

\* CustomRule.map_X, map_Y, map_Z and map_int of tests/test_conversion.py
ValueError == [k |-> "ValueError", c |-> <<>>, v |-> 0]
CustomRuleMap(h, model, operands) ==
    IF h = "int" THEN Atom(model.v + 1)
    ELSE IF model.c[1] = operands[1] THEN ValueError ELSE None

\* what a conversion rule's map returns for a node and its operands: the
\* handler's value; without a handler a container is rebuilt from its
\* operands and anything else is left as it is
ConversionMap(cls, model, operands) ==
    LET h == Dispatch(cls, model)
    IN  CASE cls = "MyEvaluate" /\ h = "MyInt" -> MyEvaluateMapMyInt(model, operands)
          [] cls = "MyEvaluate" /\ h = "MyAdd" -> MyEvaluateMapMyAdd(model, operands)
          [] cls = "ShapePrinter" /\ h # "" -> ShapePrinterMap(h, model)
          [] cls = "CustomRule" /\ h # "" -> CustomRuleMap(h, model, operands)
          [] h = "" /\ model.k \in {"list", "dict", "tuple"} ->
                [model EXCEPT !.c = operands]
          [] OTHER -> None

\* one visit of a conversion rule, through PassBase._call
ConversionVisit(cls, model, operands) ==
    CallResult(model, ConversionMap(cls, model, operands))

RECURSIVE VisitSeq(_, _)
VisitSeq(order, model) ==
    LET subs == Concat([i \in DOMAIN model.c |-> VisitSeq(order, model.c[i])])
    IN  IF order = "Pre" THEN <<model>> \o subs ELSE subs \o <<model>>

RECURSIVE FoldVisits(_, _, _)
FoldVisits(cls, acc, visits) ==
    IF visits = <<>> THEN acc
    ELSE FoldVisits(cls, AnalysisVisit(cls, acc, Head(visits)), Tail(visits))

\* an analysis walk: visits for side effect only
AnalysisWalk(order, cls, acc, model) == FoldVisits(cls, acc, VisitSeq(order, model))

RECURSIVE RewriteWalk(_, _, _)
RewriteWalk(order, cls, model) ==
    IF order = "Pre"
    THEN LET new == RewriteVisit(cls, model)
         IN  [new EXCEPT !.c = [i \in DOMAIN new.c |-> RewriteWalk(order, cls, new.c[i])]]
    ELSE RewriteVisit(cls,
            [model EXCEPT !.c = [i \in DOMAIN model.c |-> RewriteWalk(order, cls, model.c[i])]])

RECURSIVE ConversionWalk(_, _)
ConversionWalk(cls, model) ==
    ConversionVisit(cls, model,
        [i \in DOMAIN model.c |-> ConversionWalk(cls, model.c[i])])

\* WalkBase.map for the rule flavours
Walk(order, cls, model) ==
    CASE cls \in AnalysisRules -> model
      [] cls \in ConversionRules -> ConversionWalk(cls, model)
      [] OTHER -> RewriteWalk(order, cls, model)


-----------------------------------------------------------------------------
(* The calls a walker makes to its rule *)

RECURSIVE NodeAt(_, _)
NodeAt(model, path) ==
    IF path = <<>> THEN model ELSE NodeAt(model.c[Head(path)], Tail(path))

RECURSIVE ReplaceAt(_, _, _)
ReplaceAt(model, path, new) ==
    IF path = <<>> THEN new
    ELSE [model EXCEPT !.c[Head(path)] = ReplaceAt(@, Tail(path), new)]

\* a variant of the Pre walk that descends into the children of the node it
\* was given
PreChildren_Original(model, new) == model.c

\* the children a Pre rewrite walk descends into after the rule has been
\* applied to model and has returned new
PreChildren(model, new) == new.c

\* a rewrite walk of the node at path: the calls made to the rule, in
\* order, each with the node handed over and the node that came back, and
\* the result of the walk
RECURSIVE RewriteTrace(_, _, _, _)
RewriteTrace(order, cls, model, path) ==
    IF order = "Pre"
    THEN LET new == RewriteVisit(cls, model)
             kids == PreChildren(model, new)
             sub == [i \in DOMAIN kids |->
                       RewriteTrace(order, cls, kids[i], Append(path, i))]
         IN  [calls |-> <<[path |-> path, arg |-> model, ret |-> new]>>
                        \o Concat([i \in DOMAIN sub |-> sub[i].calls]),
              out |-> [new EXCEPT !.c = [i \in DOMAIN sub |-> sub[i].out]]]
    ELSE LET sub == [i \in DOMAIN model.c |->
                       RewriteTrace(order, cls, model.c[i], Append(path, i))]
             rebuilt == [model EXCEPT !.c = [i \in DOMAIN sub |-> sub[i].out]]
             new == RewriteVisit(cls, rebuilt)
         IN  [calls |-> Concat([i \in DOMAIN sub |-> sub[i].calls])
                        \o <<[path |-> path, arg |-> rebuilt, ret |-> new]>>,
              out |-> new]

\* a variant that stores each converted child in the field it came from
InputAfterChild_InPlace(tree, path, converted) == ReplaceAt(tree, path, converted)

\* the input of a conversion walk after the child at path has been
\* converted: the converted value goes to the operands, not to the input
InputAfterChild(tree, path, converted) == tree

\* a Post conversion walk of the node at path of the input tree: the input
\* as the walk leaves it, the calls made to the rule, each with the node and
\* the operands handed over, what the handler returned and what the call
\* yielded, and the result of the walk
RECURSIVE ConversionTrace(_, _, _)
RECURSIVE ConversionChildren(_, _, _, _)
ConversionChildren(cls, st, path, i) ==
    IF i > Len(NodeAt(st.tree, path).c) THEN st
    ELSE LET t == ConversionTrace(cls, st.tree, Append(path, i))
         IN  ConversionChildren(cls,
                [tree |-> InputAfterChild(t.tree, Append(path, i), t.out),
                 calls |-> st.calls \o t.calls,
                 outs |-> Append(st.outs, t.out)],
                path, i + 1)

ConversionTrace(cls, tree, path) ==
    LET kids == ConversionChildren(cls, [tree |-> tree, calls |-> <<>>, outs |-> <<>>],
                                   path, 1)
        model == NodeAt(kids.tree, path)
        ret == ConversionMap(cls, model, kids.outs)
        out == CallResult(model, ret)
    IN  [tree |-> kids.tree,
         calls |-> Append(kids.calls,
                     [path |-> path, model |-> model, operands |-> kids.outs,
                      handler |-> Dispatch(cls, model), ret |-> ret, out |-> out]),
         out |-> out]


-----------------------------------------------------------------------------
(* Pass objects *)

\* PassBase.__init__ and the constructors of the subclasses: the fields of
\* every kind of pass, unused ones at their neutral value
NewPass(kind) ==
    [kind |-> kind, cache |-> 0, rules |-> <<>>, rule |-> 0, copies |-> <<>>,
     reuse |-> FALSE, max_iter |-> 0, fn |-> "", order |-> "", cls |-> "",
     acc |-> FreshAcc, verbose |-> FALSE]

NewChain(rules) == [NewPass("Chain") EXCEPT !.rules = rules]

NewFixedPoint(rule, max_iter, reuse) ==
    [NewPass("FixedPoint") EXCEPT !.rule = rule, !.max_iter = max_iter, !.reuse = reuse]

NewFilter(function, rule, reuse) ==
    [NewPass("Filter") EXCEPT !.rule = rule, !.fn = function, !.reuse = reuse]

NewWalk(order, rule) == [NewPass("Walk") EXCEPT !.rule = rule, !.order = order]

NewRule(cls) == [NewPass("Rule") EXCEPT !.cls = cls]

NewUser(fn) == [NewPass("User") EXCEPT !.fn = fn]

\* the `children` property of each kind of pass
ChainChildren(h, p) == h[p].rules

FixedPointChildren(h, p) == IF h[p].reuse THEN <<h[p].rule>> ELSE h[p].copies

FilterChildren(h, p) == IF h[p].reuse THEN <<h[p].rule>> ELSE h[p].copies

WalkChildren(h, p) == <<h[p].rule>>

Children(h, p) ==
    CASE h[p].kind = "Chain" -> ChainChildren(h, p)
      [] h[p].kind = "FixedPoint" -> FixedPointChildren(h, p)
      [] h[p].kind = "Filter" -> FilterChildren(h, p)
      [] h[p].kind = "Walk" -> WalkChildren(h, p)
      [] OTHER -> <<>>

\* every pass reachable from p through `children`, p included
RECURSIVE Descendants(_, _)
Descendants(h, p) ==
    {p} \cup UNION {Descendants(h, q) : q \in Range(Children(h, p))}

\* copy.deepcopy of a pass: every object its attributes reach (passes and
\* caches) is copied once, references inside the copy point to the copies
Refs(h, p) == (Range(h[p].rules) \cup Range(h[p].copies) \cup {h[p].rule}) \ {0}

RECURSIVE Reach(_, _, _)
Reach(h, todo, seen) ==
    IF todo = {} THEN seen
    ELSE LET q == CHOOSE x \in todo : TRUE
             new == Refs(h, q) \ (seen \cup {q})
         IN  Reach(h, (todo \ {q}) \cup new, seen \cup {q})

\* a variant that copies the pass object alone
DeepCopy_Shallow(h, cs, p) ==
    [heap |-> Append(h, h[p]), caches |-> cs, id |-> Len(h) + 1]

DeepCopy(h, cs, p) ==
    LET R == Reach(h, {p}, {})
        K == {h[q].cache : q \in R} \ {0}
        newP(q) == IF q = 0 THEN 0 ELSE Len(h) + Cardinality({x \in R : x <= q})
        newC(c) == IF c = 0 THEN 0 ELSE Len(cs) + Cardinality({x \in K : x <= c})
        copyOf(q) ==
            [h[q] EXCEPT !.cache = newC(@),
                         !.rules = [i \in DOMAIN @ |-> newP(@[i])],
                         !.copies = [i \in DOMAIN @ |-> newP(@[i])],
                         !.rule = newP(@)]
    IN  [heap |-> [i \in 1..(Len(h) + Cardinality(R)) |->
                      IF i <= Len(h) THEN h[i]
                      ELSE copyOf(CHOOSE q \in R : newP(q) = i)],
         caches |-> [i \in 1..(Len(cs) + Cardinality(K)) |->
                      IF i <= Len(cs) THEN cs[i]
                      ELSE cs[CHOOSE c \in K : newC(c) = i]],
         id |-> newP(p)]

\* the `rule` property of FixedPoint and of Filter: the wrapped pass itself
\* under reuse, else a new deep copy of it, recorded in _rule_copies
FixedPointRule(h, cs, p) ==
    IF h[p].reuse THEN [heap |-> h, caches |-> cs, id |-> h[p].rule]
    ELSE LET d == DeepCopy(h, cs, h[p].rule)
         IN  [d EXCEPT !.heap = [@ EXCEPT ![p].copies = Append(@, d.id)]]

FilterRule(h, cs, p) ==
    IF h[p].reuse THEN [heap |-> h, caches |-> cs, id |-> h[p].rule]
    ELSE LET d == DeepCopy(h, cs, h[p].rule)
         IN  [d EXCEPT !.heap = [@ EXCEPT ![p].copies = Append(@, d.id)]]

\* the predicates given to Filter
FilterFunction(fn, model) ==
    CASE fn = "IsMyAdd" -> model.k = "MyAdd"
      [] fn = "IsMyInt" -> model.k = "MyInt"
      [] OTHER -> TRUE

\* a variant of the test of Filter.filter
FilterSkips_Inverted(fn, model) == FilterFunction(fn, model)

\* `if not self.function(model): return model`
FilterSkips(fn, model) == ~FilterFunction(fn, model)

\* user passes whose map raises: always, or on a MyInt
Raises(fn, model) ==
    \/ fn = "Fail"
    \/ fn = "FailOnMyInt" /\ model.k = "MyInt"

\* the exception a pass raises
Exception(p) == [k |-> "RuntimeError", c |-> <<>>, v |-> p]

\* user passes deriving from PassBase directly: their map
UserMap(fn, model) ==
    CASE fn = "Incr" /\ model.k = "int" -> Atom(model.v + 1)
      [] fn = "Incr" /\ model.k = "MyInt" -> MyInt(model.c[1].v + 1)
      [] fn = "Decr" /\ model.k = "int" /\ model.v > 0 -> Atom(model.v - 1)
      [] fn = "Decr" /\ model.k = "MyInt" /\ model.c[1].v > 0 -> MyInt(model.c[1].v - 1)
      [] fn = "Decr" -> model
      [] OTHER -> None

\* PassBase.before_call: create the cache when there is none, hand it to
\* every child
PassBeforeCall(h, cs, p) ==
    LET fresh == h[p].cache = 0
        c == IF fresh THEN Len(cs) + 1 ELSE h[p].cache
        kids == Range(Children(h, p))
    IN  [heap |-> [q \in DOMAIN h |->
                      IF q = p \/ q \in kids THEN [h[q] EXCEPT !.cache = c] ELSE h[q]],
         caches |-> IF fresh THEN Append(cs, <<>>) ELSE cs]


-----------------------------------------------------------------------------
(* The walker's three phases *)

\* one declared requirement <<A, W>>: W(A()) is run over the model with the
\* shared cache, which marks the earlier valid results of A stale and
\* appends the new one
RunRequirement(st, req, model) ==
    CacheAppend(Invalidate(st, Obj(req[1])),
        AnalysisResult(Obj(req[1]),
            AnalysisData(req[1], AnalysisWalk(req[2], req[1], FreshAcc, model))))

RECURSIVE RunRequirements(_, _, _)
RunRequirements(st, reqs, model) ==
    IF reqs = <<>> THEN st
    ELSE RunRequirements(RunRequirement(st, Head(reqs), model), Tail(reqs), model)

\* the walker's before_call, after PassBase.before_call
WalkBeforeStore(st, cls, model) ==
    RunRequirements(IF cls \in AnalysisRules THEN Invalidate(st, Obj(cls)) ELSE st,
                    Requirements(cls), model)

RECURSIVE InvalidateAll(_, _)
InvalidateAll(st, names) ==
    IF names = <<>> THEN st
    ELSE InvalidateAll(Invalidate(st, Head(names)), Tail(names))

\* the walker's after_call: the result of an analysis rule enters the cache
WalkAfterStore(st, cls, acc) ==
    IF cls \in AnalysisRules
    THEN CacheAppend(st, AnalysisResult(Obj(cls), AnalysisData(cls, acc)))
    ELSE st

-----------------------------------------------------------------------------
(* Pass trees the user builds *)

WalkD(order, cls) ==
    [t |-> "Walk", subs |-> <<>>, reuse |-> FALSE, max_iter |-> 0, fn |-> "",
     order |-> order, cls |-> cls]
UserD(fn) ==
    [t |-> "User", subs |-> <<>>, reuse |-> FALSE, max_iter |-> 0, fn |-> fn,
     order |-> "", cls |-> ""]
ChainD(subs) ==
    [t |-> "Chain", subs |-> subs, reuse |-> FALSE, max_iter |-> 0, fn |-> "",
     order |-> "", cls |-> ""]
FixedPointD(sub, max_iter, reuse) ==
    [t |-> "FixedPoint", subs |-> <<sub>>, reuse |-> reuse, max_iter |-> max_iter,
     fn |-> "", order |-> "", cls |-> ""]
FilterD(fn, sub, reuse) ==
    [t |-> "Filter", subs |-> <<sub>>, reuse |-> reuse, max_iter |-> 0, fn |-> fn,
     order |-> "", cls |-> ""]

\* the walkers of the test suites, and user passes
Walkers ==
    {WalkD("Post", cls) : cls \in AnalysisRules \cup RewriteRules \cup ConversionRules}
    \cup {WalkD("Pre", "MySimplify"), WalkD("Pre", "WalkOrder")}
UserPasses == {UserD(fn) : fn \in {"Incr", "Decr", "Noop"}}

\* the leaves combined further
CoreLeaves ==
    {WalkD("Post", "CountTerms"), WalkD("Post", "MySimplify"),
     UserD("Incr"), UserD("Decr")}

Combined(leaves) ==
    {ChainD(<<a, b>>) : a \in leaves, b \in leaves}
    \cup {FixedPointD(a, k, r) : a \in leaves, k \in 0..MaxIter, r \in BOOLEAN}
    \cup {FilterD(f, a, r) : f \in {"IsMyAdd", "IsMyInt"}, a \in leaves, r \in BOOLEAN}

Nested(leaves) ==
    {ChainD(<<FixedPointD(a, k, r), b>>) :
        a \in leaves, b \in leaves, k \in 0..MaxIter, r \in BOOLEAN}
    \cup {FixedPointD(ChainD(<<a, b>>), k, r) :
        a \in leaves, b \in leaves, k \in 0..MaxIter, r \in BOOLEAN}
    \cup {FixedPointD(FixedPointD(a, k, r), 1, r2) :
        a \in leaves, k \in 0..MaxIter, r \in BOOLEAN, r2 \in BOOLEAN}
    \cup {FilterD("IsMyAdd", ChainD(<<a, b>>), r) :
        a \in leaves, b \in leaves, r \in BOOLEAN}
    \cup {ChainD(<<a, b, c>>) : a \in leaves, b \in leaves, c \in leaves}

Programs ==
    Walkers \cup UserPasses \cup Combined(Walkers \cup UserPasses)
    \cup Nested(CoreLeaves)

\* construction of the objects of a pass tree, children first
RECURSIVE Build(_, _)
RECURSIVE BuildAll(_, _)
BuildAll(h, ds) ==
    IF ds = <<>> THEN [heap |-> h, ids |-> <<>>]
    ELSE LET b == Build(h, Head(ds))
             rest == BuildAll(b.heap, Tail(ds))
         IN  [heap |-> rest.heap, ids |-> <<b.id>> \o rest.ids]
Build(h, d) ==
    LET b == BuildAll(h, d.subs)
        obj == CASE d.t = "Walk" -> NewWalk(d.order, Len(h) + 1)
                 [] d.t = "User" -> NewUser(d.fn)
                 [] d.t = "Chain" -> NewChain(b.ids)
                 [] d.t = "FixedPoint" -> NewFixedPoint(b.ids[1], d.max_iter, d.reuse)
                 [] d.t = "Filter" -> NewFilter(d.fn, b.ids[1], d.reuse)
        h1 == IF d.t = "Walk" THEN Append(h, NewRule(d.cls)) ELSE b.heap
    IN  [heap |-> Append(h1, obj), id |-> Len(h1) + 1]

-----------------------------------------------------------------------------
(* The call stack *)

Frame(p, model) ==
    [p |-> p, pc |-> "before", in |-> model, cur |-> model, i |-> 0,
     got |-> None, out |-> None]

Idle == stack = <<>>
Top == stack[Len(stack)]
TopIs(kind, pc) == ~Idle /\ heap[Top.p].kind = kind /\ Top.pc = pc

SetTop(f) == [stack EXCEPT ![Len(stack)] = f]

\* a pass calls pass q on model: q's __call__ starts, the caller waits
Call(q, model) ==
    /\ stack' = Append(SetTop([Top EXCEPT !.pc = "wait"]), Frame(q, model))
    /\ log' = Append(log, [ev |-> "call", p |-> q, m |-> model])

\* a line printed by a verbose pass
Line(what, p, model) == [ev |-> what, p |-> p, m |-> model]

\* `if self._verbose: print(f"Running {self} on ...({model})")`
Running(h, p, model) ==
    IF h[p].verbose THEN <<Line("Running", p, model)>> ELSE <<>>

\* a variant that names the model that map returned
CompletedModel_Output(_model, model) == model

\* the model the Completed line names: `_model`, kept from before map
CompletedModel(_model, model) == _model

\* `if self._verbose: print(f"Completed {self} on ...({_model})")`
Completed(h, p, _model, model) ==
    IF h[p].verbose
    THEN <<Line("Completed", p, CompletedModel(_model, model))>> ELSE <<>>

\* the calls a walker makes to its rule on a model, in order: the node handed
\* over and what the call yielded
RuleVisits(order, cls, model) ==
    CASE cls \in AnalysisRules ->
            LET vs == VisitSeq(order, model)
            IN  [i \in DOMAIN vs |-> [arg |-> vs[i], ret |-> vs[i]]]
      [] cls \in ConversionRules ->
            LET t == ConversionTrace(cls, model, <<>>).calls
            IN  [i \in DOMAIN t |-> [arg |-> t[i].model, ret |-> t[i].out]]
      [] OTHER ->
            LET t == RewriteTrace(order, cls, model, <<>>).calls
            IN  [i \in DOMAIN t |-> [arg |-> t[i].arg, ret |-> t[i].ret]]

\* what the rule of a walker prints during the walk of a model
RulePrints(h, r, order, model) ==
    IF h[r].verbose
    THEN LET vs == RuleVisits(order, h[r].cls, model)
         IN  Concat([i \in DOMAIN vs |->
                       Running(h, r, vs[i].arg)
                       \o Completed(h, r, vs[i].arg, vs[i].ret)])
    ELSE <<>>

\* _call is over: the Completed line, and the result for after_call
Finish(out) ==
    /\ stack' = SetTop([Top EXCEPT !.pc = "after", !.out = out])
    /\ log' = log \o Completed(heap, Top.p, Top.in, out)

\* what the last finished root invocation returned
Result == history[Len(history)].out

\* the calls and returns of the log, without the lines printed
IsPrint(e) == e.ev \in {"Running", "Completed"}

IsEvent(e) == ~IsPrint(e)

LastEvent == LET es == SelectSeq(log, IsEvent) IN es[Len(es)]

\* __call__ returns model to the caller, or to the user
Return(model) ==
    /\ log' = Append(log, [ev |-> "ret", p |-> Top.p, m |-> model])
    /\ IF Len(stack) = 1
       THEN /\ stack' = <<>>
            /\ history' = Append(history,
                    [in |-> Top.in, out |-> model,
                     last |-> IF LastEvent.ev = "ret" THEN LastEvent.m ELSE None])
       ELSE /\ stack' = [SubSeq(stack, 1, Len(stack) - 1) EXCEPT
                            ![Len(stack) - 1].got = model,
                            ![Len(stack) - 1].pc = "ret"]
            /\ UNCHANGED history


-----------------------------------------------------------------------------
(* Chain.map and FixedPoint.map, as the code computes them *)

\* variants of the loops that the properties must tell apart
ChainPick_Reversed(rules, i) == rules[Len(rules) - i]

FixedPointStop_Late(_model, new_model, i, max_iter) ==
    _model = new_model \/ i > max_iter

FixedPointArg_Original(model, new_model) == model

\* the rule of the (i+1)-th round of `for rule in self.rules`
ChainPick(rules, i) == rules[i + 1]

ChainMore(rules, i) == i < Len(rules)

\* `_model == new_model or i >= self.max_iter`
FixedPointStop(_model, new_model, i, max_iter) ==
    _model = new_model \/ i >= max_iter

\* a variant that returns the result of the last application
FixedPointReturn_Last(_model, new_model) == _model

\* what FixedPoint.map returns when it stops
FixedPointReturn(_model, new_model) == new_model

\* the argument of `self.rule(new_model)`
FixedPointArg(model, new_model) == new_model

-----------------------------------------------------------------------------
(* Actions of the pass machine *)

\* the user invokes the root pass: first on the given model, later on that
\* model again or on the last result
Invoke ==
    /\ Idle
    /\ invocations < MaxInvocations
    /\ \E model \in (IF invocations = 0 THEN {arg}
                      ELSE {m \in {arg, Result} : m.k # "RuntimeError"}) :
          /\ stack' = <<Frame(root, model)>>
          /\ log' = <<[ev |-> "call", p |-> root, m |-> model]>>
    /\ invocations' = invocations + 1
    /\ UNCHANGED <<heap, caches, root, history, arg>>
    /\ UNCHANGED <<cacheVars, walkVars>>

\* before_call of a rewriter or of a user pass
BeforeCall ==
    /\ ~Idle /\ Top.pc = "before" /\ heap[Top.p].kind # "Walk"
    /\ LET b == PassBeforeCall(heap, caches, Top.p)
       IN  heap' = b.heap /\ caches' = b.caches
    /\ stack' = SetTop([Top EXCEPT !.pc = "map"])
    /\ log' = log \o Running(heap, Top.p, Top.in)
    /\ UNCHANGED <<root, history, arg, invocations>>
    /\ UNCHANGED <<cacheVars, walkVars>>

\* before_call of a walker: the cache, then the analysis bookkeeping
WalkBeforeCall ==
    /\ TopIs("Walk", "before")
    /\ LET b == PassBeforeCall(heap, caches, Top.p)
           c == b.heap[Top.p].cache
           cls == heap[heap[Top.p].rule].cls
       IN  /\ heap' = b.heap
           /\ caches' = [b.caches EXCEPT ![c] = WalkBeforeStore(@, cls, Top.in)]
    /\ stack' = SetTop([Top EXCEPT !.pc = "map"])
    /\ log' = log \o Running(heap, Top.p, Top.in)
    /\ UNCHANGED <<root, history, arg, invocations>>
    /\ UNCHANGED <<cacheVars, walkVars>>

ChainMap ==
    /\ TopIs("Chain", "map")
    /\ IF ChainMore(heap[Top.p].rules, Top.i)
       THEN Call(ChainPick(heap[Top.p].rules, Top.i), Top.cur)
       ELSE Finish(CallResult(Top.in, Top.cur))
    /\ UNCHANGED <<heap, caches, root, history, arg, invocations>>
    /\ UNCHANGED <<cacheVars, walkVars>>

ChainRet ==
    /\ TopIs("Chain", "ret")
    /\ stack' = SetTop([Top EXCEPT !.pc = "map", !.cur = Top.got, !.i = @ + 1])
    /\ UNCHANGED <<heap, caches, root, history, arg, invocations, log>>
    /\ UNCHANGED <<cacheVars, walkVars>>

FixedPointMap ==
    /\ TopIs("FixedPoint", "map")
    /\ LET r == FixedPointRule(heap, caches, Top.p)
       IN  /\ heap' = r.heap
           /\ caches' = r.caches
           /\ Call(r.id, FixedPointArg(Top.in, Top.cur))
    /\ UNCHANGED <<root, history, arg, invocations>>
    /\ UNCHANGED <<cacheVars, walkVars>>

FixedPointRet ==
    /\ TopIs("FixedPoint", "ret")
    /\ IF FixedPointStop(Top.got, Top.cur, Top.i, heap[Top.p].max_iter)
       THEN Finish(CallResult(Top.in, FixedPointReturn(Top.got, Top.cur)))
       ELSE /\ stack' = SetTop([Top EXCEPT !.pc = "map", !.cur = Top.got, !.i = @ + 1])
            /\ UNCHANGED log
    /\ UNCHANGED <<heap, caches, root, history, arg, invocations>>
    /\ UNCHANGED <<cacheVars, walkVars>>

FilterMap ==
    /\ TopIs("Filter", "map")
    /\ IF FilterSkips(heap[Top.p].fn, Top.in)
       THEN /\ Finish(CallResult(Top.in, Top.in))
            /\ UNCHANGED <<heap, caches>>
       ELSE LET r == FilterRule(heap, caches, Top.p)
            IN  /\ heap' = r.heap
                /\ caches' = r.caches
                /\ Call(r.id, Top.in)
    /\ UNCHANGED <<root, history, arg, invocations>>
    /\ UNCHANGED <<cacheVars, walkVars>>

FilterRet ==
    /\ TopIs("Filter", "ret")
    /\ Finish(CallResult(Top.in, Top.got))
    /\ UNCHANGED <<heap, caches, root, history, arg, invocations>>
    /\ UNCHANGED <<cacheVars, walkVars>>

UserMapStep ==
    /\ TopIs("User", "map")
    /\ ~Raises(heap[Top.p].fn, Top.in)
    /\ Finish(CallResult(Top.in, UserMap(heap[Top.p].fn, Top.in)))
    /\ UNCHANGED <<heap, caches, root, history, arg, invocations>>
    /\ UNCHANGED <<cacheVars, walkVars>>

\* a variant in which the caller takes the exception for a returned model
Unwind_CaughtByCaller(stk) == SubSeq(stk, 1, Len(stk) - 1)

\* the frames left when an exception leaves the top frame: no __call__,
\* _call or map has a handler, so every running frame is abandoned
Unwind(stk) == <<>>

\* map of a user pass raises: the exception travels up to the user
UserRaise ==
    /\ TopIs("User", "map")
    /\ Raises(heap[Top.p].fn, Top.in)
    /\ LET e == Exception(Top.p)
           rest == Unwind(stack)
       IN  /\ log' = Append(log, [ev |-> "raise", p |-> Top.p, m |-> e])
           /\ IF rest = <<>>
              THEN /\ stack' = <<>>
                   /\ history' = Append(history,
                          [in |-> stack[1].in, out |-> e, last |-> None])
              ELSE /\ stack' = [rest EXCEPT ![Len(rest)].got = e,
                                            ![Len(rest)].pc = "ret"]
                   /\ UNCHANGED history
    /\ UNCHANGED <<heap, caches, root, arg, invocations>>
    /\ UNCHANGED <<cacheVars, walkVars>>

\* the walk: the rule is called at every visit; an analysis rule gathers
\* into its own state, and the rule's after_call hook runs with each visit
WalkMap ==
    /\ TopIs("Walk", "map")
    /\ LET r == heap[Top.p].rule
           cls == heap[r].cls
           order == heap[Top.p].order
       IN  /\ heap' = [heap EXCEPT ![r].acc =
                          IF cls \in AnalysisRules
                          THEN AnalysisWalk(order, cls, @, Top.in) ELSE @]
           /\ caches' = [caches EXCEPT ![heap[r].cache] =
                          InvalidateAll(@, RuleInvalidates(cls))]
           /\ stack' = SetTop([Top EXCEPT !.pc = "after",
                          !.out = CallResult(Top.in, Walk(order, cls, Top.in))])
           /\ log' = log \o RulePrints(heap, r, order, Top.in)
                         \o Completed(heap, Top.p, Top.in,
                                      CallResult(Top.in, Walk(order, cls, Top.in)))
    /\ UNCHANGED <<root, history, arg, invocations>>
    /\ UNCHANGED <<cacheVars, walkVars>>

\* after_call of a rewriter or of a user pass does nothing; __call__ returns
AfterCall ==
    /\ ~Idle /\ Top.pc = "after" /\ heap[Top.p].kind # "Walk"
    /\ Return(Top.out)
    /\ UNCHANGED <<heap, caches, root, arg, invocations>>
    /\ UNCHANGED <<cacheVars, walkVars>>

WalkAfterCall ==
    /\ TopIs("Walk", "after")
    /\ LET r == heap[Top.p].rule
       IN  caches' = [caches EXCEPT ![heap[Top.p].cache] =
                          WalkAfterStore(@, heap[r].cls, heap[r].acc)]
    /\ Return(Top.out)
    /\ UNCHANGED <<heap, root, arg, invocations>>
    /\ UNCHANGED <<cacheVars, walkVars>>

\* the interpreter's own steps: everything but the user's invocation
Step ==
    \/ BeforeCall \/ WalkBeforeCall
    \/ ChainMap \/ ChainRet
    \/ FixedPointMap \/ FixedPointRet
    \/ FilterMap \/ FilterRet
    \/ UserMapStep \/ WalkMap
    \/ AfterCall \/ WalkAfterCall

\* nothing applied directly yet
NoWalk == [op |-> "none"]

NoOp == [op |-> "none", name |-> Str(""), ret |-> <<>>]

NoStore == store = <<>> /\ prevStore = <<>> /\ lastOp = NoOp

Init ==
    /\ \E d \in Programs :
          LET b == Build(<<>>, d)
          IN  heap = b.heap /\ root = b.id
    /\ arg \in Inputs
    /\ caches = <<>>
    /\ stack = <<>>
    /\ history = <<>>
    /\ invocations = 0
    /\ log = <<>>
    /\ NoStore
    /\ walked = NoWalk

Next == Invoke \/ Step

Spec == Init /\ [][Next]_vars


-----------------------------------------------------------------------------
(* An AnalysisCache driven directly: append, invalidate and indexing *)

Names == {"CountTerms", "CountAdds", "WalkOrder"}

\* what the caller passes as a name: the string or an instance of the rule
NameValues == {Str(n) : n \in Names} \cup {Obj(n) : n \in Names}

\* entries are appended for two of the names only
Entries ==
    {[name |-> n, valid |-> b, data |-> [N_terms |-> d]] :
        n \in {"CountTerms", "CountAdds"}, b \in BOOLEAN, d \in 0..1}

DirectAppend ==
    /\ Len(store) < MaxStore
    /\ \E entry \in Entries :
          /\ store' = CacheAppend(store, entry)
          /\ lastOp' = [op |-> "append", name |-> Str(entry.name), ret |-> <<>>]
    /\ prevStore' = store
    /\ UNCHANGED <<passVars, walkVars>>

DirectInvalidate ==
    /\ UNCHANGED <<passVars, walkVars>>
    /\ \E name \in NameValues :
           /\ store' = Invalidate(store, name)
           /\ lastOp' = [op |-> "invalidate", name |-> name, ret |-> <<>>]
           /\ prevStore' = store

DirectGetItem ==
    /\ UNCHANGED <<passVars, walkVars>>
    /\ \E idx \in NameValues :
           /\ lastOp' = [op |-> "getitem", name |-> idx, ret |-> GetItem(store, idx)]
           /\ store' = store
           /\ prevStore' = store

CacheInit ==
    /\ heap = <<>> /\ caches = <<>> /\ stack = <<>> /\ root = 0
    /\ history = <<>> /\ arg = None /\ invocations = 0 /\ log = <<>>
    /\ NoStore
    /\ walked = NoWalk

CacheNext == DirectAppend \/ DirectInvalidate \/ DirectGetItem

CacheSpec == CacheInit /\ [][CacheNext]_vars


-----------------------------------------------------------------------------
(* Vocabulary of the properties *)

Finished == Idle /\ invocations >= 1

RootKind == heap[root].kind

\* the events of the current root invocation that concern the passes in ps
EventsOf(ev, ps) == SelectSeq(log, LAMBDA e : e.ev = ev /\ e.p \in ps)

\* the passes the root calls itself
RootCallees == Range(Children(heap, root))

\* the store of the cache a pass holds
StoreOf(p) == caches[heap[p].cache]

\* the number of nodes of a kind in a model, and its two depth-first listings
RECURSIVE NodeCount(_, _)
NodeCount(model, kind) ==
    (IF model.k = kind THEN 1 ELSE 0)
    + (IF Len(model.c) >= 1 THEN NodeCount(model.c[1], kind) ELSE 0)
    + (IF Len(model.c) >= 2 THEN NodeCount(model.c[2], kind) ELSE 0)

RECURSIVE Preorder(_)
Preorder(model) ==
    <<model>>
    \o (IF Len(model.c) >= 1 THEN Preorder(model.c[1]) ELSE <<>>)
    \o (IF Len(model.c) >= 2 THEN Preorder(model.c[2]) ELSE <<>>)

RECURSIVE Postorder(_)
Postorder(model) ==
    (IF Len(model.c) >= 1 THEN Postorder(model.c[1]) ELSE <<>>)
    \o (IF Len(model.c) >= 2 THEN Postorder(model.c[2]) ELSE <<>>)
    \o <<model>>

\* the data a fresh analysis of a class yields on a model under a walker
ExpectedData(cls, walker, model) ==
    CASE cls = "CountTerms" -> [N_terms |-> NodeCount(model, "MyInt")]
      [] cls = "CountAdds" -> [N_terms |-> NodeCount(model, "MyAdd")]
      [] cls = "WalkOrder" ->
            LET seq == IF walker = "Pre" THEN Preorder(model) ELSE Postorder(model)
            IN  [walk_order |-> [i \in 1..Len(seq) |-> <<i - 1, seq[i]>>],
                 counter |-> Len(seq)]

-----------------------------------------------------------------------------
(* C1: after a root pass has been invoked once, every pass reachable from  *)
(* it through `children`, at any depth, holds the same analysis cache      *)
(* object as the root.                                                     *)
C1_SharedCacheAfterInvocation ==
    (Idle /\ invocations = 1) =>
        \A q \in Descendants(heap, root) : heap[q].cache = heap[root].cache

(* C2: every analysis result produced while FixedPoint(p) runs is in the   *)
(* FixedPoint's own cache: after FixedPoint(W(A)) for an analysis rule A   *)
(* the cache holds the entry named A, and when p is a walker over a rule   *)
(* requiring A that the loop applied k times, it holds k entries named A,  *)
(* in iteration order (the i-th computed on the i-th application's input). *)
C2_FixedPointCacheHoldsResults ==
    (Idle /\ invocations = 1 /\ RootKind = "FixedPoint"
          /\ heap[heap[root].rule].kind = "Walk") =>
        LET cls == heap[heap[heap[root].rule].rule].cls
            apps == EventsOf("call", RootCallees)
        IN  /\ cls \in AnalysisRules => GetItem(StoreOf(root), Str(cls)) # <<>>
            /\ Requirements(cls) # <<>> =>
                  LET req == Requirements(cls)[1]
                      got == GetItem(StoreOf(root), Str(req[1]))
                  IN  /\ Len(got) = Len(apps)
                      /\ \A i \in 1..Len(apps) :
                            got[i].data = ExpectedData(req[1], req[2], apps[i].m)


\* the walker on top of the stack, its rule object and the rule's class
TopRule == heap[Top.p].rule
TopCls == heap[TopRule].cls
\* the store of the top pass's cache before and after a step
TopStore == IF heap[Top.p].cache = 0 THEN <<>> ELSE caches[heap[Top.p].cache]
TopStoreNext == caches'[heap'[Top.p].cache]

NoneValid(st, name) == \A i \in DOMAIN st : st[i].name = name => ~st[i].valid

(* C3: each invocation of a walker wrapping an analysis rule A first marks *)
(* every valid entry named A in the shared cache stale and, after the      *)
(* walk, appends exactly one valid entry named A whose data is the rule's  *)
(* analysis_data; hence in every cache a valid entry is the most recently  *)
(* appended entry of its name, so at most one entry per name is valid.     *)
C3_ValidIsLatest ==
    \A c \in DOMAIN caches : \A i \in DOMAIN caches[c] :
        caches[c][i].valid =>
            \A j \in DOMAIN caches[c] : j > i => caches[c][j].name # caches[c][i].name

C3_AnalysisWalkSteps ==
    /\ (TopIs("Walk", "before") /\ TopCls \in AnalysisRules) =>
            NoneValid(TopStoreNext, TopCls)
    /\ (TopIs("Walk", "map") /\ TopCls \in AnalysisRules) =>
            TopStoreNext = TopStore
    /\ (TopIs("Walk", "after") /\ TopCls \in AnalysisRules) =>
            TopStoreNext = TopStore \o
                <<[name |-> TopCls, valid |-> TRUE,
                   data |-> AnalysisData(TopCls, heap[TopRule].acc)]>>

C3_AnalysisWalkInvalidatesThenAppends ==
    []C3_ValidIsLatest /\ [][C3_AnalysisWalkSteps]_vars

C3_Witness ==
    /\ Finished /\ RootKind = "Chain"
    /\ Len(StoreOf(root)) = 2
    /\ StoreOf(root)[1].name = "CountTerms" /\ ~StoreOf(root)[1].valid
    /\ StoreOf(root)[2].name = "CountTerms" /\ StoreOf(root)[2].valid

(* C4: when a walker over a rewrite or conversion rule declaring           *)
(* requirements [A1..Ak] is invoked on m, then before the rule visits any  *)
(* node each Ai has been run over m in declared order (Post for a bare     *)
(* class, the given walker for a pair) and exactly one valid entry per Ai  *)
(* has been appended in that order, its data computed on m as it was       *)
(* before any rewriting; the walk itself and after_call append nothing, so *)
(* this happens once per walker invocation.                                *)
DeclaredWalker(req) == IF Len(req) = 2 THEN req[2] ELSE "Post"

C4_RequirementSteps ==
    /\ (TopIs("Walk", "before") /\ TopCls \notin AnalysisRules) =>
          LET reqs == DeclaredRequirements(TopCls)
              old == TopStore
              new == TopStoreNext
          IN  /\ Len(new) = Len(old) + Len(reqs)
              /\ \A i \in 1..Len(old) :
                    new[i].name = old[i].name /\ new[i].data = old[i].data
              /\ \A i \in 1..Len(reqs) :
                    new[Len(old) + i] =
                        [name |-> reqs[i][1], valid |-> TRUE,
                         data |-> ExpectedData(reqs[i][1], DeclaredWalker(reqs[i]), Top.in)]
    /\ (TopIs("Walk", "map") /\ TopCls \notin AnalysisRules) =>
          Len(TopStoreNext) = Len(TopStore)
    /\ (TopIs("Walk", "after") /\ TopCls \notin AnalysisRules) =>
          Len(TopStoreNext) = Len(TopStore)

C4_RequirementsRunBeforeRule == [][C4_RequirementSteps]_vars

C4_Witness ==
    /\ TopIs("Walk", "after") /\ TopCls = "RequiresMultiple"
    /\ Top.in = MyAdd(MyInt(1), MyInt(0))
    /\ TopStore = <<[name |-> "CountTerms", valid |-> TRUE, data |-> [N_terms |-> 2]],
                    [name |-> "CountAdds", valid |-> TRUE, data |-> [N_terms |-> 1]]>>

(* C5: for a rule with requirement A whose after_call invalidates A, the   *)
(* entry for A created by a walker invocation is stale once the invocation *)
(* returns; in Chain(W1, W2) of two such walkers the cache ends with       *)
(* exactly two stale entries named A, the first computed on the chain's    *)
(* input and the second on W1's output.                                    *)
InvalidatingRules == {"MySimplify", "MyEvaluate"}

C5_StaleOnReturn ==
    (TopIs("Walk", "after") /\ TopCls \in InvalidatingRules) =>
        NoneValid(TopStoreNext, "CountTerms")

C5_ChainOfTwo ==
    /\ RootKind = "Chain" /\ Len(heap[root].rules) = 2
    /\ \A i \in 1..2 :
          /\ heap[heap[root].rules[i]].kind = "Walk"
          /\ heap[heap[heap[root].rules[i]].rule].cls \in InvalidatingRules

C5_ChainEndsWithTwoStale ==
    (Idle /\ invocations = 1 /\ C5_ChainOfTwo) =>
        StoreOf(root) =
            <<[name |-> "CountTerms", valid |-> FALSE,
               data |-> [N_terms |-> NodeCount(history[1].in, "MyInt")]],
              [name |-> "CountTerms", valid |-> FALSE,
               data |-> [N_terms |->
                   NodeCount(EventsOf("ret", {heap[root].rules[1]})[1].m, "MyInt")]]>>

C5_InvalidatedRequirementIsStale ==
    []C5_ChainEndsWithTwoStale /\ [][C5_StaleOnReturn]_vars

C5_Witness ==
    /\ Idle /\ invocations = 1 /\ C5_ChainOfTwo
    /\ history[1].in = MyAdd(MyInt(1), MyInt(1))
    /\ history[1].out = MyInt(2)
    /\ StoreOf(root)[1].data = [N_terms |-> 2]
    /\ StoreOf(root)[2].data = [N_terms |-> 1]


\* the name a caller's value stands for
NameText(value) == IF value.isStr THEN value.text ELSE value.cls

(* C6: after cache.invalidate(name) no entry with that name is valid,      *)
(* every entry with a different name keeps its valid flag, and the number, *)
(* order, names and data of all entries are unchanged; invalidating a name *)
(* with no valid entry changes nothing.                                    *)
C6_InvalidateFrame ==
    lastOp.op = "invalidate" =>
        LET n == NameText(lastOp.name)
        IN  /\ Len(store) = Len(prevStore)
            /\ \A i \in 1..Len(store) :
                  /\ store[i].name = prevStore[i].name
                  /\ store[i].data = prevStore[i].data
                  /\ store[i].name = n => ~store[i].valid
                  /\ store[i].name # n => store[i].valid = prevStore[i].valid
            /\ NoneValid(prevStore, n) => store = prevStore

C6_Witness ==
    /\ lastOp.op = "invalidate"
    /\ \E i, j \in 1..Len(store) :
          /\ prevStore[i].valid /\ ~store[i].valid
          /\ store[j].name # store[i].name /\ store[j].valid

(* C7: cache[name] returns exactly the entries whose name equals name,     *)
(* valid and stale alike, in the order they were appended, and leaves the  *)
(* cache unchanged; for a name never appended it returns the empty list.   *)
C7_GetItemSelectsByName ==
    (lastOp.op = "getitem" /\ lastOp.name.isStr) =>
        LET named == {i \in 1..Len(store) : store[i].name = lastOp.name.text}
            ret == lastOp.ret
        IN  /\ store = prevStore
            /\ Len(ret) = Cardinality(named)
            /\ \E at \in [1..Len(ret) -> named] :
                  /\ \A j, k \in 1..Len(ret) : j < k => at[j] < at[k]
                  /\ \A j \in 1..Len(ret) : ret[j] = store[at[j]]
            /\ named = {} => ret = <<>>

C7_Witness ==
    /\ lastOp.op = "getitem" /\ lastOp.name = Str("CountTerms")
    /\ Len(store) = 3 /\ Len(lastOp.ret) = 2
    /\ lastOp.ret[1].valid # lastOp.ret[2].valid
    /\ lastOp.ret[1].data # lastOp.ret[2].data

(* C8: Chain(p1, ..., pk)(n) equals pk(...p2(p1(n))...): the passes run    *)
(* exactly once each in construction order, each receiving the previous    *)
(* pass's output (its own input back when its map returns None), and the   *)
(* chain returns the last pass's output.                                   *)
C8_ChainRunsInOrder ==
    (Idle /\ invocations >= 1 /\ RootKind = "Chain") =>
        LET rules == heap[root].rules
            k == Len(rules)
            calls == EventsOf("call", Range(rules))
            rets == EventsOf("ret", Range(rules))
            n == history[Len(history)].in
        IN  /\ Len(calls) = k /\ Len(rets) = k
            /\ \A i \in 1..k :
                  /\ calls[i].p = rules[i] /\ rets[i].p = rules[i]
                  /\ calls[i].m = IF i = 1 THEN n ELSE rets[i - 1].m
                  /\ heap[rules[i]].kind = "User" =>
                        rets[i].m = IF UserMap(heap[rules[i]].fn, calls[i].m) = None
                                    THEN calls[i].m
                                    ELSE UserMap(heap[rules[i]].fn, calls[i].m)
            /\ Result = IF k = 0 THEN n ELSE rets[k].m

C8_Witness ==
    /\ Idle /\ invocations = 1 /\ RootKind = "Chain"
    /\ Len(heap[root].rules) = 2
    /\ heap[heap[root].rules[1]].kind = "User" /\ heap[heap[root].rules[1]].fn = "Noop"
    /\ heap[heap[root].rules[2]].kind = "User" /\ heap[heap[root].rules[2]].fn = "Incr"
    /\ history[1].in = Atom(0) /\ history[1].out = Atom(1)


\* FixedPoint at the root: over user passes with every max_iter, and over a
\* walker, a Filter and a Chain with the smallest ones
FixedPointBodies ==
    {WalkD("Post", "MySimplify"),
     FilterD("IsMyInt", UserD("Incr"), FALSE),
     ChainD(<<WalkD("Post", "MySimplify"), UserD("Decr")>>)}

FixedPointPrograms ==
    {FixedPointD(UserD(fn), k, r) : fn \in {"Incr", "Decr"}, k \in 0..MaxIter, r \in BOOLEAN}
    \cup {FixedPointD(a, k, r) : a \in FixedPointBodies, k \in 0..1, r \in BOOLEAN}

FixedPointInputs == {Atom(0), MyInt(MaxInt), MyAdd(MyInt(MaxInt), MyInt(MaxInt))}

FixedPointInit ==
    /\ \E d \in FixedPointPrograms :
          LET b == Build(<<>>, d)
          IN  heap = b.heap /\ root = b.id
    /\ arg \in FixedPointInputs
    /\ caches = <<>>
    /\ stack = <<>>
    /\ history = <<>>
    /\ invocations = 0
    /\ log = <<>>
    /\ NoStore
    /\ walked = NoWalk

\* every call is synchronous: the interpreter always takes its next step
FixedPointSpec == FixedPointInit /\ [][Next]_vars /\ WF_vars(Step)

\* how often the root FixedPoint has applied its pass in this invocation
Applications == Len(EventsOf("call", RootCallees))

(* C9 as stated: FixedPoint(p, max_iter=k) terminates whenever each        *)
(* application of p terminates, and it applies p no more than k times,     *)
(* even when p never reaches a fixed point.                                *)
C9_AtMostMaxIterApplications ==
    (invocations >= 1 /\ RootKind = "FixedPoint") =>
        Applications <= heap[root].max_iter

(* C9 amended: FixedPoint(p, max_iter=k) terminates whenever each          *)
(* application of p terminates, and it applies p no more than k + 1 times, *)
(* even when p never reaches a fixed point.                                *)
C9_Bound ==
    (invocations >= 1 /\ RootKind = "FixedPoint") =>
        Applications <= heap[root].max_iter + 1

C9_Terminates == (~Idle /\ RootKind = "FixedPoint") ~> Idle

C9_FixedPointTerminatesWithinBound == []C9_Bound /\ C9_Terminates

C9_Witness ==
    /\ Idle /\ invocations = 1 /\ RootKind = "FixedPoint"
    /\ heap[root].max_iter = 1
    /\ Applications = 2
    /\ history[1].in = Atom(0) /\ history[1].out = Atom(1) /\ history[1].last = Atom(2)

\* the first run stopped because an application returned its input
StoppedAtFixedPoint(run) == run.last = run.out

(* C10 as stated: for every deterministic pass p, every max_iter and every *)
(* model n, FixedPoint(p)(n) equals FixedPoint(p)(FixedPoint(p)(n)).       *)
C10_Idempotent ==
    (Idle /\ RootKind = "FixedPoint") =>
        \A i, j \in 1..Len(history) :
            (i < j /\ history[j].in = history[i].out) =>
                history[j].out = history[i].out

(* C10 amended: for every deterministic pass p, every max_iter and every   *)
(* model n on which FixedPoint(p) stops because an application of p        *)
(* returned its input, FixedPoint(p)(n) equals                             *)
(* FixedPoint(p)(FixedPoint(p)(n)).                                        *)
C10_IdempotentAtFixedPoint ==
    (Idle /\ RootKind = "FixedPoint") =>
        \A i, j \in 1..Len(history) :
            (i < j /\ history[j].in = history[i].out /\ StoppedAtFixedPoint(history[i])) =>
                history[j].out = history[i].out

C10_Witness ==
    /\ Idle /\ RootKind = "FixedPoint" /\ Len(history) = 2
    /\ history[1].in = MyAdd(MyInt(1), MyInt(1))
    /\ history[1].out = MyInt(2) /\ StoppedAtFixedPoint(history[1])
    /\ history[2].in = MyInt(2) /\ history[2].out = MyInt(2)


(* C11: Filter(pred, p)(n) returns n itself when pred(n) is false, without *)
(* invoking p, without creating a clone of p and without adding any cache  *)
(* entry; when pred(n) is true it returns exactly what p returns on n. The *)
(* predicate is evaluated on the top-level node only: nodes below n that   *)
(* satisfy it do not matter.                                               *)
C11_FilterSteps ==
    /\ (TopIs("Filter", "map") /\ ~FilterFunction(heap[Top.p].fn, Top.in)) =>
          /\ heap' = heap /\ caches' = caches /\ log' = log
          /\ Len(stack') = Len(stack)
          /\ stack'[Len(stack)].pc = "after" /\ stack'[Len(stack)].out = Top.in
    /\ (TopIs("Filter", "map") /\ FilterFunction(heap[Top.p].fn, Top.in)) =>
          /\ Len(stack') = Len(stack) + 1
          /\ stack'[Len(stack')].in = Top.in
          /\ IF heap[Top.p].reuse
             THEN stack'[Len(stack')].p = heap[Top.p].rule
             ELSE /\ stack'[Len(stack')].p \notin DOMAIN heap
                  /\ heap'[Top.p].copies = Append(heap[Top.p].copies, stack'[Len(stack')].p)
    /\ TopIs("Filter", "ret") => stack'[Len(stack)].out = Top.got

C11_RootFilter ==
    (Idle /\ invocations >= 1 /\ RootKind = "Filter") =>
        LET n == history[Len(history)].in
            calls == EventsOf("call", RootCallees)
            rets == EventsOf("ret", RootCallees)
        IN  IF FilterFunction(heap[root].fn, n)
            THEN /\ Len(calls) = 1 /\ calls[1].m = n
                 /\ Len(rets) = 1 /\ Result = rets[1].m
            ELSE /\ Result = n
                 /\ log = <<[ev |-> "call", p |-> root, m |-> n],
                            [ev |-> "ret", p |-> root, m |-> n]>>

C11_FilterAppliesOnlyWhenPredicateHolds ==
    []C11_RootFilter /\ [][C11_FilterSteps]_vars

\* skipped, twice, although the nodes below the top satisfy the predicate
C11_Witness ==
    /\ Idle /\ RootKind = "Filter" /\ Len(history) = 2
    /\ heap[root].fn = "IsMyInt" /\ ~heap[root].reuse
    /\ heap[heap[root].rule].kind = "User" /\ heap[heap[root].rule].fn = "Incr"
    /\ history[1].in = MyAdd(MyInt(1), MyInt(1)) /\ history[1].out = history[1].in
    /\ heap[root].copies = <<>>
    /\ \A c \in DOMAIN caches : caches[c] = <<>>

\* the FixedPoint and Filter objects, and what a pass object holds besides
\* its references to other objects
Wrappers == {q \in DOMAIN heap : heap[q].kind \in {"FixedPoint", "Filter"}}

OwnState(o) ==
    [kind |-> o.kind, reuse |-> o.reuse, max_iter |-> o.max_iter, fn |-> o.fn,
     order |-> o.order, cls |-> o.cls, acc |-> o.acc]

\* the step is wrapper q calling a pass
Applies(q) == ~Idle /\ Top.p = q /\ Len(stack') = Len(stack) + 1
Callee == stack'[Len(stack')].p

(* C12: with reuse=False, FixedPoint and Filter never invoke the pass p    *)
(* they were constructed with: every application runs a new deep copy of p *)
(* made at that moment, so p and everything below it stay unchanged and    *)
(* the copy starts from p's state; `children` lists exactly these copies   *)
(* in creation order and grows by one per application, across all          *)
(* invocations. With reuse=True `children` is always [p] and p itself runs *)
(* in every application.                                                   *)
C12_WrapperSteps ==
    \A q \in Wrappers :
        IF heap[q].reuse
        THEN /\ Children(heap', q) = <<heap[q].rule>>
             /\ Applies(q) => Callee = heap[q].rule
        ELSE /\ \A x \in Reach(heap, {heap[q].rule}, {}) : heap'[x] = heap[x]
             /\ heap'[q].rule = heap[q].rule
             /\ Children(heap', q) = heap'[q].copies
             /\ IF Applies(q)
                THEN /\ Callee \notin DOMAIN heap
                     /\ heap'[q].copies = Append(heap[q].copies, Callee)
                     /\ OwnState(heap'[Callee]) = OwnState(heap[heap[q].rule])
                     /\ heap[heap[q].rule].kind = "Walk" =>
                           /\ heap'[Callee].rule \notin DOMAIN heap
                           /\ OwnState(heap'[heap'[Callee].rule]) =
                                 OwnState(heap[heap[heap[q].rule].rule])
                ELSE heap'[q].copies = heap[q].copies

C12_CopyPerApplication == [][C12_WrapperSteps]_vars

\* two invocations of FixedPoint(Post(CountTerms())) without reuse: two
\* copies, each having counted its own walk only, the original none
C12_Witness ==
    /\ Idle /\ RootKind = "FixedPoint" /\ ~heap[root].reuse /\ Len(history) = 2
    /\ history[1].in = MyAdd(MyInt(1), MyInt(1))
    /\ heap[heap[root].rule].kind = "Walk"
    /\ heap[heap[heap[root].rule].rule].cls = "CountTerms"
    /\ heap[heap[heap[root].rule].rule].acc = FreshAcc
    /\ Len(heap[root].copies) = 2
    /\ \A i \in 1..2 : heap[heap[heap[root].copies[i]].rule].acc.n = 2


-----------------------------------------------------------------------------
(* A rule applied directly to a node (tests/examples/dispatch_example.py) *)

Shape == [k |-> "Shape", c |-> <<>>, v |-> 0]
Circle(radius) == [k |-> "Circle", c |-> <<Atom(radius)>>, v |-> 0]
Rectangle(width, height) ==
    [k |-> "Rectangle", c |-> <<Atom(width), Atom(height)>>, v |-> 0]
\* Square.set_dimensions: width and height are set from side
Square(side) ==
    [k |-> "Square", c |-> <<Atom(side), Atom(side), Atom(side)>>, v |-> 0]

ApplyNodes ==
    {Shape} \cup {Circle(r) : r \in 0..MaxInt} \cup {Square(r) : r \in 0..MaxInt}
    \cup {Rectangle(w, h) : w \in 0..MaxInt, h \in 0..MaxInt}
    \cup Inputs

ApplyRules ==
    {"ShapePrinter", "PrintWalkOrder", "CountTerms", "CountAdds", "WalkOrder",
     "MySimplify", "RequiresSingle"}

\* rule(node): the handler invoked, what the call returns, and the state an
\* analysis rule is left with
ApplyRule ==
    /\ walked.op = "none"
    /\ \E cls \in ApplyRules :
          LET node == walked.node
              h == Dispatch(cls, node)
          IN  walked' =
                [op |-> "apply", rule |-> cls, node |-> node,
                 handlers |-> IF h = "" THEN <<>> ELSE <<h>>,
                 out |-> CASE cls \in AnalysisRules -> node
                           [] cls = "ShapePrinter" /\ h # "" -> ShapePrinterMap(h, node)
                           [] cls = "ShapePrinter" -> node
                           [] OTHER -> RewriteVisit(cls, node),
                 acc |-> IF cls \in AnalysisRules
                         THEN AnalysisVisit(cls, FreshAcc, node) ELSE FreshAcc]
    /\ UNCHANGED <<passVars, cacheVars>>

-----------------------------------------------------------------------------
(* The four walkers applied directly to a tree (tests/test_walk.py) *)

MaxArity == 3

\* strings, lists, dicts and the records X, Y, N and A of the tests; the
\* class_ field of a TypeReflectBaseModel is not a child
Leaf(i) == [k |-> "str", c |-> <<>>, v |-> i]
List(items) == [k |-> "list", c |-> items, v |-> 0]
Dict(values) == [k |-> "dict", c |-> values, v |-> 0]
X(a, b) == [k |-> "X", c |-> <<a, b>>, v |-> 0]
Y(a, b) == [k |-> "Y", c |-> <<a, b>>, v |-> 0]
N == [k |-> "N", c |-> <<>>, v |-> 0]
A(n, x) == [k |-> "A", c |-> <<n, x>>, v |-> 0]

SeqsUpTo(S, n) == UNION {[1..k -> S] : k \in 0..n}

\* the inputs of the tests, and every list of lists of one string
TestTrees ==
    {List(<<Leaf(1), Leaf(2)>>), Dict(<<Leaf(1), Leaf(2)>>),
     X(Leaf(1), Leaf(2)), Y(Leaf(1), Leaf(2)),
     List(<<Leaf(1), List(<<Leaf(2), Leaf(3)>>)>>),
     List(<<List(<<Leaf(1), List(<<Leaf(2), Leaf(3)>>)>>), List(<<Leaf(4), Leaf(5)>>)>>),
     List(<<List(<<Leaf(1), List(<<Leaf(2), Leaf(3)>>)>>),
            List(<<Leaf(4), Leaf(5), Leaf(6)>>)>>),
     A(N, X(Leaf(1), Leaf(2))),
     MyAdd(MyInt(1), MyInt(0))}

SmallTrees == {Leaf(1)} \cup {List(cs) : cs \in SeqsUpTo({Leaf(1)}, MaxArity)}

Trees == TestTrees \cup SmallTrees \cup {List(cs) : cs \in SeqsUpTo(SmallTrees, MaxArity)}

\* a variant that ignores reverse
ChildOrder_Forward(model, reverse) == [i \in 1..Len(model.c) |-> i]

\* the order in which a walker takes the children of a node
ChildOrder(model, reverse) ==
    LET n == Len(model.c)
    IN  [i \in 1..n |-> IF reverse THEN n + 1 - i ELSE i]

\* a variant that takes the smaller half first
InSplit_Floor(n) == n \div 2

\* the number of children the In walker takes before it visits the node
InSplit(n) == (n + 1) \div 2

\* a variant that does not present atomic leaves to the rule
RECURSIVE WalkVisits_SkipsAtoms(_, _, _, _)
WalkVisits_SkipsAtoms(order, reverse, model, path) ==
    LET idx == ChildOrder(model, reverse)
        n == Len(idx)
        sub == [i \in 1..n |->
                  WalkVisits_SkipsAtoms(order, reverse, model.c[idx[i]], Append(path, idx[i]))]
        me == IF model.k \in {"str", "int"} THEN <<>> ELSE <<[path |-> path, node |-> model]>>
    IN  CASE order = "Pre" -> me \o Concat(sub)
          [] order = "Post" -> Concat(sub) \o me
          [] order = "In" ->
                Concat(SubSeq(sub, 1, InSplit(n))) \o me
                \o Concat(SubSeq(sub, InSplit(n) + 1, n))

\* what the rule sees during a Pre, Post or In walk of the node at path:
\* the position and the node of every visit, in order
RECURSIVE WalkVisits(_, _, _, _)
WalkVisits(order, reverse, model, path) ==
    LET idx == ChildOrder(model, reverse)
        n == Len(idx)
        sub == [i \in 1..n |->
                  WalkVisits(order, reverse, model.c[idx[i]], Append(path, idx[i]))]
        me == <<[path |-> path, node |-> model]>>
    IN  CASE order = "Pre" -> me \o Concat(sub)
          [] order = "Post" -> Concat(sub) \o me
          [] order = "In" ->
                Concat(SubSeq(sub, 1, InSplit(n))) \o me
                \o Concat(SubSeq(sub, InSplit(n) + 1, n))

\* variants of the Level walk: last in first out, and reverse ignored
RECURSIVE LevelVisits_DepthFirst(_, _)
LevelVisits_DepthFirst(reverse, queue) ==
    IF queue = <<>> THEN <<>>
    ELSE LET at == Head(queue)
             idx == ChildOrder(at.node, reverse)
             kids == [i \in 1..Len(idx) |->
                        [path |-> Append(at.path, idx[i]), node |-> at.node.c[idx[i]]]]
         IN  <<at>> \o LevelVisits_DepthFirst(reverse, kids \o Tail(queue))

RECURSIVE LevelVisits_NeverReversed(_, _)
LevelVisits_NeverReversed(reverse, queue) ==
    IF queue = <<>> THEN <<>>
    ELSE LET at == Head(queue)
             kids == [i \in 1..Len(at.node.c) |->
                        [path |-> Append(at.path, i), node |-> at.node.c[i]]]
         IN  <<at>> \o LevelVisits_NeverReversed(reverse, Tail(queue) \o kids)

\* a Level walk: the nodes waiting in the queue, first in first out
RECURSIVE LevelVisits(_, _)
LevelVisits(reverse, queue) ==
    IF queue = <<>> THEN <<>>
    ELSE LET at == Head(queue)
             idx == ChildOrder(at.node, reverse)
             kids == [i \in 1..Len(idx) |->
                        [path |-> Append(at.path, idx[i]), node |-> at.node.c[idx[i]]]]
         IN  <<at>> \o LevelVisits(reverse, Tail(queue) \o kids)

WalkerVisits(order, reverse, model) ==
    IF order = "Level"
    THEN LevelVisits(reverse, <<[path |-> <<>>, node |-> model]>>)
    ELSE WalkVisits(order, reverse, model, <<>>)

\* walker(tree) for a walker over PrintWalkOrder, whose generic_map notes
\* the node and returns None: the tree comes back as it is
DirectWalk(order) ==
    /\ walked.op = "none"
    /\ \E reverse \in BOOLEAN :
          LET tree == walked.node
          IN
          walked' = [op |-> "walk", order |-> order, reverse |-> reverse,
                     rule |-> "PrintWalkOrder", node |-> tree,
                     visits |-> WalkerVisits(order, reverse, tree),
                     out |-> tree]
    /\ UNCHANGED <<passVars, cacheVars>>

PreWalk == DirectWalk("Pre")
PostWalk == DirectWalk("Post")
LevelWalk == DirectWalk("Level")
InWalk == DirectWalk("In")

-----------------------------------------------------------------------------
(* Rewrite and conversion walks applied directly to a tree, with the calls *)
(* the walker makes to the rule (tests/test_rule.py, test_conversion.py)   *)

Tuple(items) == [k |-> "tuple", c |-> items, v |-> 0]

\* sums of sums, which Pre and Post simplify differently
RewriteInputs ==
    {MyAdd(MyAdd(MyInt(a), MyInt(b)), MyInt(c)) : a, b, c \in 0..MaxInt}
    \cup {MyAdd(MyInt(a), MyAdd(MyInt(b), MyInt(c))) : a, b, c \in 0..MaxInt}

\* X(a=dict(aa=1, ab=2)), Y(a=[1, 2, 3, 4, 5]), Z(a=(1, 2)) and their like
ConversionInputs ==
    {[k |-> "X", c |-> <<Dict(<<Atom(1), Atom(2)>>)>>, v |-> 0],
     [k |-> "Y", c |-> <<List(<<Atom(1), Atom(2), Atom(3), Atom(4), Atom(5)>>)>>, v |-> 0],
     [k |-> "Z", c |-> <<Tuple(<<Atom(1), Atom(2)>>)>>, v |-> 0]}
    \cup {[k |-> kind[1], c |-> <<[k |-> kind[2], c |-> items, v |-> 0]>>, v |-> 0] :
            kind \in {<<"X", "dict">>, <<"Y", "list">>, <<"Z", "tuple">>},
            items \in SeqsUpTo({Atom(n) : n \in 0..MaxInt}, MaxArity) \ {<<>>}}

\* Pre(rule)(tree) and Post(rule)(tree) for a rewrite rule
WalkRewrite ==
    /\ walked.op = "none"
    /\ \E order \in {"Pre", "Post"}, cls \in {"MySimplify", "PrintWalkOrder"} :
          LET t == RewriteTrace(order, cls, walked.node, <<>>)
          IN  walked' = [op |-> "rewrite", order |-> order, rule |-> cls,
                         node |-> walked.node, calls |-> t.calls, out |-> t.out]
    /\ UNCHANGED <<passVars, cacheVars>>

\* Post(rule)(tree) for a conversion rule; before is the input as it was,
\* node the input as the walk leaves it
WalkConversion ==
    /\ walked.op = "none"
    /\ \E cls \in {"MyEvaluate", "CustomRule"} :
          /\ cls = "CustomRule" => walked.node \in ConversionInputs
          /\ LET t == ConversionTrace(cls, walked.node, <<>>)
             IN  walked' = [op |-> "convert", order |-> "Post", rule |-> cls,
                            before |-> walked.node, node |-> t.tree,
                            calls |-> t.calls, out |-> t.out]
    /\ UNCHANGED <<passVars, cacheVars>>

WalkInit ==
    /\ heap = <<>> /\ caches = <<>> /\ stack = <<>> /\ root = 0
    /\ history = <<>> /\ arg = None /\ invocations = 0 /\ log = <<>>
    /\ NoStore
    /\ \E node \in Trees \cup ApplyNodes \cup RewriteInputs \cup ConversionInputs :
          walked = [op |-> "none", node |-> node]

WalkNext ==
    ApplyRule \/ PreWalk \/ PostWalk \/ LevelWalk \/ InWalk \/ WalkRewrite
    \/ WalkConversion

WalkSpec == WalkInit /\ [][WalkNext]_vars

(* C13: applying a rule to a node invokes exactly one handler: map_<Kind>  *)
(* for the first kind of the node's kind chain (most specific first) that  *)
(* has one, otherwise generic_map; with neither, a rewrite or conversion   *)
(* rule returns the node unchanged and an analysis rule does nothing. A    *)
(* node of a subclass without a handler of its own is handled by its       *)
(* nearest ancestor's handler: a Square by map_Rectangle.                  *)
C13_FirstMatchingHandler ==
    walked.op = "apply" =>
        LET chain == KindChain(walked.node)
            H == Handlers(walked.rule)
            hs == walked.handlers
            matches == {i \in DOMAIN chain : chain[i] \in H}
        IN  /\ Len(hs) <= 1
            /\ matches # {} =>
                  /\ Len(hs) = 1
                  /\ \E i \in matches : chain[i] = hs[1] /\ \A j \in matches : i <= j
            /\ (matches = {} /\ HasGenericMap(walked.rule)) => hs = <<"generic_map">>
            /\ (matches = {} /\ ~HasGenericMap(walked.rule)) =>
                  hs = <<>> /\ walked.out = walked.node /\ walked.acc = FreshAcc
            /\ (walked.rule = "ShapePrinter" /\ walked.node.k = "Square") =>
                  /\ hs = <<"Rectangle">>
                  /\ walked.out = [k |-> "Rectangle", v |-> 0,
                                   c |-> <<walked.node.c[1], walked.node.c[2]>>]

C13_Witness ==
    /\ walked.op = "apply" /\ walked.rule = "ShapePrinter"
    /\ walked.node = Square(1)
    /\ walked.handlers = <<"Rectangle">>


\* the positions of a tree and the visits as the
\* rule numbers them
RECURSIVE Positions(_, _)
Positions(model, path) ==
    {path} \cup UNION {Positions(model.c[i], Append(path, i)) : i \in DOMAIN model.c}

IsPrefix(p, q) == Len(p) <= Len(q) /\ SubSeq(q, 1, Len(p)) = p
\* p comes before q from left to right: at the first index where they differ
LeftOf(p, q) ==
    \E i \in 1..Len(p) :
        /\ i <= Len(q) /\ p[i] < q[i]
        /\ SubSeq(p, 1, i - 1) = SubSeq(q, 1, i - 1)

PreorderBefore(p, q) == (IsPrefix(p, q) /\ p # q) \/ LeftOf(p, q)
PostorderBefore(p, q) == (IsPrefix(q, p) /\ p # q) \/ LeftOf(p, q)
LevelBefore(p, q) == Len(p) < Len(q) \/ (Len(p) = Len(q) /\ LeftOf(p, q))

(* C14: for every tree of records, lists and dicts with atomic leaves the  *)
(* rule sees, under Pre, the preorder enumeration (node, then children     *)
(* left to right), under Post the postorder enumeration (children left to  *)
(* right, then node) and under Level the breadth-first enumeration (root,  *)
(* then all depth-1 nodes in order, then all depth-2 nodes, and so on).    *)
C14_WalkOrders ==
    (walked.op = "walk" /\ ~walked.reverse /\ walked.order \in {"Pre", "Post", "Level"}) =>
        LET vs == walked.visits
        IN  /\ {vs[i].path : i \in DOMAIN vs} = Positions(walked.node, <<>>)
            /\ \A i \in DOMAIN vs : vs[i].node = NodeAt(walked.node, vs[i].path)
            /\ \A i, j \in DOMAIN vs : i < j =>
                  CASE walked.order = "Pre" -> PreorderBefore(vs[i].path, vs[j].path)
                    [] walked.order = "Post" -> PostorderBefore(vs[i].path, vs[j].path)
                    [] walked.order = "Level" -> LevelBefore(vs[i].path, vs[j].path)
            /\ walked.order \in {"Pre", "Post"} =>
                  [i \in DOMAIN vs |-> vs[i].node] = VisitSeq(walked.order, walked.node)

\* test_level_nested_list: [['a', ['b', 'c']], ['d', 'e']]
C14_Witness ==
    /\ walked.op = "walk" /\ walked.order = "Level" /\ ~walked.reverse
    /\ walked.node = List(<<List(<<Leaf(1), List(<<Leaf(2), Leaf(3)>>)>>),
                            List(<<Leaf(4), Leaf(5)>>)>>)
    /\ [i \in DOMAIN walked.visits |-> walked.visits[i].path] =
          << <<>>, <<1>>, <<2>>, <<1, 1>>, <<1, 2>>, <<2, 1>>, <<2, 2>>,
             <<1, 2, 1>>, <<1, 2, 2>> >>


\* in an In walk: visit i is of a node, visit j of something below its
\* child number c
Below(vs, i, j) ==
    /\ Len(vs[j].path) > Len(vs[i].path)
    /\ SubSeq(vs[j].path, 1, Len(vs[i].path)) = vs[i].path
ChildOf(vs, i, j) == vs[j].path[Len(vs[i].path) + 1]

\* every node is visited after the subtrees of its first `first(n)`
\* children and before the subtrees of the others, the children in order
InWalkSplitsAt(vs, first(_)) ==
    \A i, j \in DOMAIN vs :
        Below(vs, i, j) =>
            IF ChildOf(vs, i, j) <= first(Len(vs[i].node.c)) THEN j < i ELSE j > i

Half(n) == n \div 2
HalfRoundedUp(n) == (n + 1) \div 2

C16_InSmallArities ==
    (walked.op = "walk" /\ walked.order = "In") =>
        LET vs == walked.visits
            rank(n, c) == IF walked.reverse THEN n + 1 - c ELSE c
        IN  \A i \in DOMAIN vs :
                LET n == Len(vs[i].node.c)
                    below == {j \in DOMAIN vs : Below(vs, i, j)}
                IN  /\ n = 0 =>
                          Cardinality({j \in DOMAIN vs : vs[j].path = vs[i].path}) = 1
                    /\ n = 2 => \A j \in below :
                          IF rank(n, ChildOf(vs, i, j)) = 1 THEN j < i ELSE j > i
                    /\ n = 3 => \A j \in below :
                          IF rank(n, ChildOf(vs, i, j)) <= 2 THEN j < i ELSE j > i

\* test_reversed_in_nested_list
C16_Witness ==
    /\ walked.op = "walk" /\ walked.order = "In" /\ walked.reverse
    /\ walked.node = List(<<List(<<Leaf(1), List(<<Leaf(2), Leaf(3)>>)>>),
                            List(<<Leaf(4), Leaf(5), Leaf(6)>>)>>)
    /\ [i \in DOMAIN walked.visits |-> walked.visits[i].node.v] =
          <<6, 5, 0, 4, 0, 3, 0, 2, 0, 1>>

\* the mirror image of a tree, and of a position in it
RECURSIVE Mirror(_)
Mirror(model) ==
    [model EXCEPT !.c = [i \in DOMAIN model.c |-> Mirror(model.c[Len(model.c) + 1 - i])]]

RECURSIVE MirrorPath(_, _)
MirrorPath(model, path) ==
    IF path = <<>> THEN <<>>
    ELSE <<Len(model.c) + 1 - Head(path)>>
         \o MirrorPath(model.c[Head(path)], Tail(path))

(* C17: for each of Pre, Post, Level and In and every tree T, the visit    *)
(* sequence with reverse=True on T equals the visit sequence with          *)
(* reverse=False on the mirror image of T: the same positions, seen from   *)
(* the mirror, holding the mirrored nodes, in the same order.              *)
C17_ReverseIsMirror ==
    (walked.op = "walk" /\ walked.reverse) =>
        LET vs == walked.visits
            ms == WalkerVisits(walked.order, FALSE, Mirror(walked.node))
        IN  /\ Len(vs) = Len(ms)
            /\ \A i \in DOMAIN vs :
                  /\ ms[i].node = Mirror(vs[i].node)
                  /\ ms[i].path = MirrorPath(walked.node, vs[i].path)

\* test_reversed_level_nested_list
C17_Witness ==
    /\ walked.op = "walk" /\ walked.order = "Level" /\ walked.reverse
    /\ walked.node = List(<<List(<<Leaf(1), List(<<Leaf(2), Leaf(3)>>)>>),
                            List(<<Leaf(4), Leaf(5)>>)>>)
    /\ [i \in DOMAIN walked.visits |-> walked.visits[i].node.v] =
          <<0, 0, 0, 5, 4, 0, 1, 3, 2>>

(* C18: for each of the four walk orders and both values of reverse, one   *)
(* walk presents every position of the tree to the rule exactly once,      *)
(* atomic leaves included: the visit sequence is a permutation of the      *)
(* tree's positions, none skipped and none repeated.                       *)
C18_VisitsArePermutation ==
    walked.op = "walk" =>
        LET vs == walked.visits
            P == Positions(walked.node, <<>>)
        IN  /\ Len(vs) = Cardinality(P)
            /\ \A p \in P :
                  Cardinality({i \in DOMAIN vs : vs[i].path = p}) = 1
            /\ \A i \in DOMAIN vs : vs[i].path \in P
            /\ \A i \in DOMAIN vs : vs[i].node = NodeAt(walked.node, vs[i].path)

\* test_requires_post_walk_automated_analysis: the ints below MyInt are seen
C18_Witness ==
    /\ walked.op = "walk" /\ walked.order = "Post" /\ ~walked.reverse
    /\ walked.node = MyAdd(MyInt(1), MyInt(0))
    /\ [i \in DOMAIN walked.visits |-> walked.visits[i].node] =
          <<Atom(1), MyInt(1), Atom(0), MyInt(0), MyAdd(MyInt(1), MyInt(0))>>


\* the calls of a walk made at a position
CallsAt(calls, path) == {i \in DOMAIN calls : calls[i].path = path}

(* C19: Post(R) for a rewrite rule R applies R to a node only after all    *)
(* its children have been rewritten, the handler receiving the node        *)
(* rebuilt from the rewritten children; Pre(R) applies R to a node first   *)
(* and then walks the children of the node R returned, not those of the    *)
(* original node.                                                          *)
C19_RewriteWalkOrder ==
    walked.op = "rewrite" =>
        LET cs == walked.calls
        IN  /\ walked.out = RewriteWalk(walked.order, walked.rule, walked.node)
            /\ Cardinality(CallsAt(cs, <<>>)) = 1
            /\ \A i \in DOMAIN cs :
                  cs[i].ret = RewriteVisit(walked.rule, cs[i].arg)
            /\ walked.order = "Post" =>
                  /\ {cs[i].path : i \in DOMAIN cs} = Positions(walked.node, <<>>)
                  /\ cs[Len(cs)].path = <<>> /\ walked.out = cs[Len(cs)].ret
                  /\ \A i \in DOMAIN cs :
                        LET here == NodeAt(walked.node, cs[i].path)
                        IN  /\ cs[i].arg.k = here.k
                            /\ DOMAIN cs[i].arg.c = DOMAIN here.c
                            /\ \A j \in DOMAIN here.c :
                                  \E k \in CallsAt(cs, Append(cs[i].path, j)) :
                                      /\ k < i
                                      /\ CallsAt(cs, Append(cs[i].path, j)) = {k}
                                      /\ cs[k].arg.k = here.c[j].k
                                      /\ cs[i].arg.c[j] = cs[k].ret
            /\ walked.order = "Pre" =>
                  /\ cs[1].path = <<>> /\ cs[1].arg = walked.node
                  /\ \A i \in DOMAIN cs :
                        /\ \A j \in DOMAIN cs[i].ret.c :
                              \E k \in CallsAt(cs, Append(cs[i].path, j)) :
                                  /\ k > i
                                  /\ CallsAt(cs, Append(cs[i].path, j)) = {k}
                                  /\ cs[k].arg = cs[i].ret.c[j]
                        /\ \A k \in DOMAIN cs :
                              (/\ Len(cs[k].path) = Len(cs[i].path) + 1
                               /\ IsPrefix(cs[i].path, cs[k].path))
                              => cs[k].path[Len(cs[k].path)] \in DOMAIN cs[i].ret.c

\* Pre(MySimplify) on MyInt(1) + MyInt(1): the sum is replaced first, and the
\* walk goes on into the int of the MyInt that came back
C19_Witness ==
    /\ walked.op = "rewrite" /\ walked.order = "Pre" /\ walked.rule = "MySimplify"
    /\ walked.node = MyAdd(MyInt(1), MyInt(1))
    /\ walked.calls = <<[path |-> <<>>, arg |-> MyAdd(MyInt(1), MyInt(1)), ret |-> MyInt(2)],
                        [path |-> <<1>>, arg |-> Atom(2), ret |-> Atom(2)]>>
    /\ walked.out = MyInt(2)

(* C20: a Post conversion walk never modifies its input: each handler      *)
(* receives the original node, whose fields still hold the original        *)
(* unconverted children, together with a separately built operands         *)
(* structure holding the converted result of each child under the same     *)
(* field name or index; after the walk the input is structurally equal to  *)
(* its value before the walk, and a handler that returns None yields the   *)
(* original node.                                                          *)
C20_ConversionLeavesInput ==
    walked.op = "convert" =>
        LET cs == walked.calls
        IN  /\ walked.node = walked.before
            /\ {cs[i].path : i \in DOMAIN cs} = Positions(walked.before, <<>>)
            /\ walked.out = cs[Len(cs)].out /\ cs[Len(cs)].path = <<>>
            /\ \A i \in DOMAIN cs :
                  /\ cs[i].model = NodeAt(walked.before, cs[i].path)
                  /\ DOMAIN cs[i].operands = DOMAIN cs[i].model.c
                  /\ \A j \in DOMAIN cs[i].model.c :
                        \E k \in CallsAt(cs, Append(cs[i].path, j)) :
                            /\ k < i
                            /\ CallsAt(cs, Append(cs[i].path, j)) = {k}
                            /\ cs[i].operands[j] = cs[k].out
                  /\ (cs[i].handler # "" /\ cs[i].ret = None) =>
                        cs[i].out = NodeAt(walked.before, cs[i].path)

\* test_conversion_model_argument_attribute_unmodified on X(a=dict(aa=1, ab=2)):
\* map_X sees the dict of 1 and 2 in the node, that of 2 and 3 in the operands
C20_Witness ==
    /\ walked.op = "convert" /\ walked.rule = "CustomRule"
    /\ walked.before = [k |-> "X", c |-> <<Dict(<<Atom(1), Atom(2)>>)>>, v |-> 0]
    /\ walked.out = walked.before
    /\ LET last == walked.calls[Len(walked.calls)]
       IN  /\ last.handler = "X" /\ last.ret = None
           /\ last.model = walked.before
           /\ last.operands = <<Dict(<<Atom(2), Atom(3)>>)>>


\* the root is FixedPoint(W(A)) for an analysis rule A and has been invoked once
FixedPointOverAnalysis ==
    /\ Idle /\ invocations = 1 /\ RootKind = "FixedPoint"
    /\ heap[heap[root].rule].kind = "Walk"
    /\ heap[heap[heap[root].rule].rule].cls \in AnalysisRules

C21_WalkReturnsInput ==
    (TopIs("Walk", "after") /\ TopCls \in AnalysisRules) => Top.out = Top.in

C21_WalkerAppliedOnce ==
    FixedPointOverAnalysis => Len(EventsOf("call", RootCallees)) = 1

C21_OneEntry ==
    FixedPointOverAnalysis =>
        Len(GetItem(StoreOf(root), Str(heap[heap[heap[root].rule].rule].cls))) = 1

(* C21: a walker wrapping an analysis rule returns a model structurally    *)
(* equal to its input; consequently FixedPoint(W(A)) for an analysis rule  *)
(* A applies the walker exactly once and leaves exactly one entry named A  *)
(* in its cache.                                                           *)
C21_AnalysisWalkIsIdentity ==
    C21_WalkReturnsInput /\ C21_WalkerAppliedOnce /\ C21_OneEntry


\* the order in which a running __call__ moves through its phases: map may
\* call other passes and wait for them any number of times
PhaseMoves ==
    {<<"before", "map">>, <<"map", "wait">>, <<"wait", "ret">>, <<"ret", "map">>,
     <<"map", "after">>, <<"ret", "after">>}

\* what map returns in the step that ends it, for the passes whose map is
\* one step
MapResult ==
    IF heap[Top.p].kind = "User" THEN UserMap(heap[Top.p].fn, Top.in)
    ELSE Walk(heap[Top.p].order, TopCls, Top.in)

C26_PhaseSteps ==
    /\ \A i \in DOMAIN stack' : i > Len(stack) => stack'[i].pc = "before"
    /\ \A i \in DOMAIN stack \cap DOMAIN stack' :
          /\ stack'[i].p = stack[i].p /\ stack'[i].in = stack[i].in
          /\ stack'[i].pc = stack[i].pc \/ <<stack[i].pc, stack'[i].pc>> \in PhaseMoves
          /\ stack[i].pc = "after" => stack'[i] = stack[i]
    /\ (~Idle /\ Top.pc \in {"map", "ret"} /\ Len(stack') = Len(stack)
              /\ stack'[Len(stack)].pc = "after") =>
          /\ stack'[Len(stack)].out # None
          /\ heap[Top.p].kind \in {"User", "Walk"} =>
                stack'[Len(stack)].out =
                    IF MapResult = None THEN Top.in ELSE MapResult
    /\ (~Idle /\ stack' # stack /\ Top.pc = "after") =>
          /\ Len(stack') = Len(stack) - 1
          /\ log'[Len(log')] = [ev |-> "ret", p |-> Top.p, m |-> Top.out]
          /\ Len(stack) > 1 => stack'[Len(stack')].got = Top.out
          /\ Len(stack) = 1 =>
                /\ history'[Len(history')].in = Top.in
                /\ history'[Len(history')].out = Top.out
    /\ Len(stack') < Len(stack) => Top.pc = "after"

(* C26: every invocation of a pass runs before_call, then map, then        *)
(* after_call, each exactly once and in that order, all on the same pass;  *)
(* the invocation returns map's result, or the input model when map        *)
(* returns None, and after_call receives that returned model and cannot    *)
(* change what is returned.                                                *)
C26_ThreePhases == [][C26_PhaseSteps]_vars

\* a user pass whose map returns None has returned the model it was given
C26_Witness ==
    /\ Finished /\ RootKind = "User" /\ heap[root].fn = "Noop"
    /\ UserMap("Noop", arg) = None
    /\ Result = arg


C28_CacheSteps ==
    \A p \in DOMAIN heap :
        heap[p].cache # 0 =>
            /\ heap'[p].cache = heap[p].cache
            /\ Len(caches'[heap'[p].cache]) >= Len(caches[heap[p].cache])

(* C28: once a pass's analysis cache reference has been set it is never    *)
(* replaced by a different cache object: invoking the pass again, or       *)
(* invoking a combinator that has it as a child, leaves the pass holding   *)
(* the cache it already had, with the entries it already contained.        *)
C28_CacheReferenceSetOnce == [][C28_CacheSteps]_vars


\* the applications of p made by the root FixedPoint in the invocation just
\* finished: what each one was given and what each one returned
Applied == EventsOf("call", RootCallees)
Returned == EventsOf("ret", RootCallees)

(* C29: for a deterministic pass p, FixedPoint(p, max_iter=k)(n) returns p *)
(* applied j times to n, where j is the smallest index with                *)
(* p^(j+1)(n) = p^j(n) if such a j <= k exists and j = k otherwise; p is   *)
(* applied exactly j+1 times and the result of the last application is     *)
(* discarded, so the returned model is a fixed point of p whenever the     *)
(* loop stopped before reaching the cap.                                   *)
C29_FixedPointResult ==
    (Finished /\ RootKind = "FixedPoint") =>
        LET j == Len(Applied) - 1
            k == heap[root].max_iter
            run == history[Len(history)]
        IN  /\ Len(Returned) = j + 1 /\ j >= 0 /\ j <= k
            /\ Applied[1].m = run.in
            /\ \A i \in 1..j : Applied[i + 1].m = Returned[i].m
            /\ \A i \in 1..j : Returned[i].m # Applied[i].m
            /\ Returned[j + 1].m = Applied[j + 1].m \/ j = k
            /\ run.out = Applied[j + 1].m
            /\ j < k => Returned[j + 1].m = run.out
            /\ heap[heap[root].rule].kind = "User" =>
                  \A i \in 1..(j + 1) :
                      Returned[i].m =
                          CallResult(Applied[i].m,
                                     UserMap(heap[heap[root].rule].fn, Applied[i].m))

\* Decr on MyInt(1) with max_iter 2: MyInt(0) after one application, found
\* to be a fixed point by the second
C29_Witness ==
    /\ Finished /\ RootKind = "FixedPoint" /\ heap[root].max_iter = 2
    /\ heap[heap[root].rule].kind = "User" /\ heap[heap[root].rule].fn = "Decr"
    /\ Len(history) = 1 /\ history[1].in = MyInt(1) /\ history[1].out = MyInt(0)
    /\ Len(Applied) = 2 /\ Returned[2].m = MyInt(0)


-----------------------------------------------------------------------------
(* Caches under both kinds of use: a cache driven directly by append,      *)
(* invalidate and indexing, and the caches of a tree of passes under       *)
(* invocation                                                              *)

CacheUseInit == Init \/ CacheInit

CacheUseNext ==
    \/ root # 0 /\ Next
    \/ root = 0 /\ CacheNext

CacheUseSpec == CacheUseInit /\ [][CacheUseNext]_vars

\* a store after a step keeps what it held before the step
Keeps(old, new) ==
    /\ Len(new) >= Len(old)
    /\ \A i \in DOMAIN old :
          /\ new[i].name = old[i].name
          /\ new[i].data = old[i].data
          /\ ~old[i].valid => ~new[i].valid

C30_StoreSteps ==
    /\ Keeps(store, store')
    /\ Len(caches') >= Len(caches)
    /\ \A c \in DOMAIN caches : Keeps(caches[c], caches'[c])

(* C30: under any sequence of append, invalidate and indexing operations   *)
(* and of pass invocations, a cache's store never loses or reorders an     *)
(* entry, an entry's name and data never change, and an entry's valid flag *)
(* never goes from False back to True.                                     *)
C30_StoreIsAppendOnly == [][C30_StoreSteps]_vars

\* an entry marked stale by invalidate, followed in the store by another
\* entry of its name
C30_Witness ==
    /\ lastOp.op = "invalidate" /\ Len(store) = MaxStore
    /\ \E i \in DOMAIN store :
          /\ prevStore[i].valid /\ ~store[i].valid
          /\ \E j \in DOMAIN store : j > i /\ store[j].name = store[i].name


-----------------------------------------------------------------------------
(* The analysis_cache property of a pass, assigned to directly *)

\* what may be assigned: an AnalysisCache object, or something else
CacheValue(c) == [type |-> "AnalysisCache", id |-> c]
OtherValue(type) == [type |-> type, id |-> 0]

IsAnalysisCache(value) == value.type = "AnalysisCache"

\* a variant of the setter that takes any value
SetAnalysisCache_Unchecked(h, p, value) ==
    [heap |-> [h EXCEPT ![p].cache = value.id], raised |-> ""]

\* the setter of PassBase.analysis_cache
SetAnalysisCache(h, p, value) ==
    IF IsAnalysisCache(value)
    THEN [heap |-> [h EXCEPT ![p].cache = value.id], raised |-> ""]
    ELSE [heap |-> h, raised |-> "TypeError"]

AssignedValues ==
    {CacheValue(c) : c \in DOMAIN caches}
    \cup {OtherValue(type) : type \in {"NoneType", "str", "dict", "list", "Post"}}

\* pass.analysis_cache = value
AssignCache ==
    /\ Idle
    /\ \E p \in DOMAIN heap, value \in AssignedValues :
          LET r == SetAnalysisCache(heap, p, value)
          IN  /\ heap' = r.heap
              /\ walked' = [op |-> "assign", pass |-> p, value |-> value,
                            before |-> heap[p].cache, raised |-> r.raised]
    /\ UNCHANGED <<caches, stack, root, history, arg, invocations, log>>
    /\ UNCHANGED cacheVars

\* someone creates another AnalysisCache
NewCache ==
    /\ Idle /\ Len(caches) < MaxStore
    /\ caches' = Append(caches, <<>>)
    /\ UNCHANGED <<heap, stack, root, history, arg, invocations, log>>
    /\ UNCHANGED <<cacheVars, walkVars>>

\* a walker and a user pass, never invoked
AssignInit ==
    /\ LET b == Build(<<>>, ChainD(<<WalkD("Post", "CountTerms"), UserD("Incr")>>))
       IN  heap = b.heap /\ root = b.id
    /\ arg = None /\ caches = <<>> /\ stack = <<>> /\ history = <<>>
    /\ invocations = 0 /\ log = <<>>
    /\ NoStore
    /\ walked = NoWalk

AssignNext == AssignCache \/ NewCache

AssignSpec == AssignInit /\ [][AssignNext]_vars

(* C24: assigning to a pass's analysis_cache any value that is not an      *)
(* AnalysisCache raises TypeError and leaves the pass's previous cache     *)
(* reference unchanged; assigning an AnalysisCache always succeeds and     *)
(* makes it the pass's cache.                                              *)
C24_CacheSetter ==
    walked.op = "assign" =>
        IF walked.value.type = "AnalysisCache"
        THEN walked.raised = "" /\ heap[walked.pass].cache = walked.value.id
        ELSE walked.raised = "TypeError" /\ heap[walked.pass].cache = walked.before

\* None assigned to a pass that holds a cache: TypeError, the cache stays
C24_Witness ==
    /\ walked.op = "assign" /\ walked.value = OtherValue("NoneType")
    /\ walked.raised = "TypeError"
    /\ walked.before # 0 /\ heap[walked.pass].cache = walked.before


-----------------------------------------------------------------------------
(* Chains with passes that raise *)

RaiseLeaves ==
    {WalkD("Post", "CountTerms"), WalkD("Post", "MySimplify"),
     UserD("Incr"), UserD("Fail"), UserD("FailOnMyInt")}

RaisePrograms ==
    {ChainD(<<a, b>>) : a \in RaiseLeaves, b \in RaiseLeaves}
    \cup {ChainD(<<a, b, c>>) : a \in RaiseLeaves, b \in RaiseLeaves, c \in RaiseLeaves}
    \cup {FixedPointD(ChainD(<<a, b>>), 1, r) :
            a \in RaiseLeaves, b \in RaiseLeaves, r \in BOOLEAN}
    \cup {FilterD("IsMyAdd", ChainD(<<a, b>>), FALSE) :
            a \in RaiseLeaves, b \in RaiseLeaves}

RaiseInit ==
    /\ \E d \in RaisePrograms :
          LET b == Build(<<>>, d)
          IN  heap = b.heap /\ root = b.id
    /\ arg \in Inputs
    /\ caches = <<>>
    /\ stack = <<>>
    /\ history = <<>>
    /\ invocations = 0
    /\ log = <<>>
    /\ NoStore
    /\ walked = NoWalk

RaiseNext == Invoke \/ Step \/ UserRaise

RaiseSpec == RaiseInit /\ [][RaiseNext]_vars

\* how many events of a kind the log holds for a pass
Count(lg, ev, p) == Cardinality({i \in DOMAIN lg : lg[i].ev = ev /\ lg[i].p = p})

\* the top pass is about to raise
Raising == TopIs("User", "map") /\ Raises(heap[Top.p].fn, Top.in)

C25_RaiseSteps ==
    (Raising /\ stack' # stack) =>
        /\ stack' = <<>>
        /\ history'[Len(history')].out = Exception(Top.p)
        /\ log'[Len(log')] = [ev |-> "raise", p |-> Top.p, m |-> Exception(Top.p)]
        /\ \A i \in DOMAIN stack :
              Count(log', "ret", stack[i].p) = Count(log', "call", stack[i].p) - 1
        /\ heap' = heap
        /\ caches' = caches

\* the events since the last call of a pass
SinceLastCall(q) ==
    LET at == CHOOSE i \in DOMAIN log :
                /\ log[i].ev = "call" /\ log[i].p = q
                /\ \A j \in DOMAIN log : (log[j].ev = "call" /\ log[j].p = q) => j <= i
    IN  SubSeq(log, at + 1, Len(log))

\* after an exception nothing more has happened in the invocation: of every
\* Chain that was running, the passes up to the raising one have been
\* called, the later ones have not, and neither the Chain nor the pass that
\* did not return has finished its call
C25_NothingAfterRaise ==
    \A i \in DOMAIN log :
        log[i].ev = "raise" =>
            /\ i = Len(log) /\ Idle
            /\ \A q \in DOMAIN heap :
                  (/\ heap[q].kind = "Chain" /\ Count(log, "call", q) >= 1
                   /\ Count(SinceLastCall(q), "ret", q) = 0) =>
                      LET run == SinceLastCall(q)
                      IN  \E n \in DOMAIN heap[q].rules :
                            /\ \A j \in 1..n : Count(run, "call", heap[q].rules[j]) = 1
                            /\ \A j \in 1..(n - 1) : Count(run, "ret", heap[q].rules[j]) = 1
                            /\ \A j \in (n + 1)..Len(heap[q].rules) :
                                  Count(run, "call", heap[q].rules[j]) = 0
                            /\ Count(run, "ret", heap[q].rules[n]) = 0

(* C25: when the i-th pass of Chain(p1, ..., pk) raises, the exception     *)
(* reaches the Chain's caller unchanged, passes p(i+1)..pk are never       *)
(* invoked, no after_call hook of the raising pass or of the Chain runs,   *)
(* and every cache entry appended before the failure is still in the       *)
(* shared cache with the flags it had at that moment.                      *)
C25_ChainPropagatesException ==
    []C25_NothingAfterRaise /\ [][C25_RaiseSteps]_vars

\* Chain(Post(CountTerms()), Fail, Incr) on a sum: the count is in the cache,
\* the second pass raised, the third was never called
C25_Witness ==
    /\ Idle /\ invocations = 1 /\ RootKind = "Chain" /\ Len(heap[root].rules) = 3
    /\ heap[heap[root].rules[1]].kind = "Walk"
    /\ heap[heap[root].rules[2]].fn = "Fail"
    /\ history[1].in = MyAdd(MyInt(1), MyInt(1))
    /\ history[1].out = Exception(heap[root].rules[2])
    /\ StoreOf(root) = <<[name |-> "CountTerms", valid |-> TRUE, data |-> [N_terms |-> 2]]>>
    /\ Count(log, "call", heap[root].rules[3]) = 0
    /\ Count(log, "ret", root) = 0


-----------------------------------------------------------------------------
(* set_verbose, and the lines a verbose walker prints *)

\* the base class of a rule
RuleBase(cls) ==
    CASE cls \in AnalysisRules -> "AnalysisRule"
      [] cls \in ConversionRules -> "ConversionRule"
      [] OTHER -> "RewriteRule"

\* the classes a pass is an instance of
TypesOf(h, p) ==
    CASE h[p].kind = "Walk" -> {h[p].order, "Walk", "PassBase"}
      [] h[p].kind = "Rule" -> {h[p].cls, RuleBase(h[p].cls), "PassBase"}
      [] h[p].kind = "User" -> {h[p].fn, "PassBase"}
      [] OTHER -> {h[p].kind, "RewriterBase", "PassBase"}

\* `isinstance(self, exclude)`
IsInstance(h, p, exclude) == TypesOf(h, p) \cap exclude # {}

\* set_verbose: the flag of the pass unless it is excluded, then, with
\* cascade, the same call on each of its children
RECURSIVE SetVerbose(_, _, _, _, _)
RECURSIVE SetVerboseChildren(_, _, _, _, _)
SetVerboseChildren(h, kids, state, cascade, exclude) ==
    IF kids = <<>> THEN h
    ELSE SetVerboseChildren(SetVerbose(h, Head(kids), state, cascade, exclude),
                            Tail(kids), state, cascade, exclude)
SetVerbose(h, p, state, cascade, exclude) ==
    LET h1 == IF ~IsInstance(h, p, exclude)
              THEN [h EXCEPT ![p].verbose = state] ELSE h
    IN  IF cascade
        THEN SetVerboseChildren(h1, Children(h1, p), state, cascade, exclude)
        ELSE h1

\* the tuples of classes given as exclude
ExcludeSets ==
    {{}, {"Post"}, {"MySimplify"}, {"RewriteRule"}, {"Post", "MySimplify"}}

\* the user calls set_verbose on a pass, before the first invocation and at
\* most twice
SetVerboseCall ==
    /\ Idle /\ invocations = 0
    /\ IF walked.op = "none" THEN TRUE ELSE ~walked.earlier
    /\ \E p \in DOMAIN heap, state \in BOOLEAN, cascade \in BOOLEAN,
          exclude \in ExcludeSets :
          /\ heap' = SetVerbose(heap, p, state, cascade, exclude)
          /\ walked' = [op |-> "set_verbose", pass |-> p, state |-> state,
                        cascade |-> cascade, exclude |-> exclude,
                        before |-> heap, earlier |-> walked.op # "none"]
    /\ UNCHANGED <<caches, stack, root, history, arg, invocations, log>>
    /\ UNCHANGED cacheVars

VerbosePrograms ==
    {WalkD(order, cls) : order \in {"Pre", "Post"}, cls \in {"MySimplify", "CountTerms"}}
    \cup {WalkD("Post", "MyEvaluate"), ChainD(<<WalkD("Post", "MySimplify")>>)}

\* an int, a MyInt, and sums like the MyInt(x=1) + MyInt(x=2) of the tests
VerboseInputs ==
    {Atom(0), MyInt(1), MyAdd(MyInt(0), MyInt(1)), MyAdd(MyInt(1), MyInt(1))}

VerboseInit ==
    /\ \E d \in VerbosePrograms :
          LET b == Build(<<>>, d)
          IN  heap = b.heap /\ root = b.id
    /\ arg \in VerboseInputs
    /\ caches = <<>>
    /\ stack = <<>>
    /\ history = <<>>
    /\ invocations = 0
    /\ log = <<>>
    /\ NoStore
    /\ walked = NoWalk

\* the steps of a walker, and of a Chain around it
VerboseNext ==
    \/ SetVerboseCall \/ Invoke
    \/ BeforeCall \/ ChainMap \/ ChainRet \/ AfterCall
    \/ WalkBeforeCall \/ WalkMap \/ WalkAfterCall

VerboseSpec == VerboseInit /\ [][VerboseNext]_vars

\* the pass was reached by the last set_verbose call
Reached(p) ==
    \/ p = walked.pass
    \/ walked.cascade /\ p \in Descendants(walked.before, walked.pass)

\* the flag the last set_verbose call leaves a pass with
FlagAfter(p) ==
    IF walked.op # "set_verbose" THEN FALSE
    ELSE IF Reached(p) /\ TypesOf(walked.before, p) \cap walked.exclude = {}
         THEN walked.state
         ELSE walked.before[p].verbose

\* the lines printed during the last invocation
Printed == SelectSeq(log, IsPrint)

\* the lines of a pass with the given flag
Lines(flag, lines) == IF flag THEN lines ELSE <<>>

(* C27: after set_verbose(True, cascade=True, exclude=E) on a walker,      *)
(* invoking the walker prints one Running line for the walker, then for    *)
(* each rule visit in traversal order one Running line immediately         *)
(* followed by its Completed line, then one Completed line for the walker, *)
(* every line naming the model the pass received as input; a pass whose    *)
(* type is in E keeps its previous flag and prints nothing, and with       *)
(* cascade=False only the pass the call was made on is affected.           *)
C27_VerboseLines ==
    /\ \A p \in DOMAIN heap : heap[p].verbose = FlagAfter(p)
    /\ (Idle /\ history # <<>> /\ RootKind = "Walk") =>
          LET r == heap[root].rule
              model == history[Len(history)].in
              vs == RuleVisits(heap[root].order, heap[r].cls, model)
          IN  Printed =
                Lines(FlagAfter(root), <<Line("Running", root, model)>>)
                \o Lines(FlagAfter(r),
                     Concat([i \in DOMAIN vs |->
                               <<Line("Running", r, vs[i].arg),
                                 Line("Completed", r, vs[i].arg)>>]))
                \o Lines(FlagAfter(root), <<Line("Completed", root, model)>>)

\* Post(MySimplify()) made verbose with cascade and without exclusions, on
\* MyInt(0) + MyInt(1): twelve lines, the last rule visit on the sum
C27_Witness ==
    /\ Idle /\ invocations = 1 /\ RootKind = "Walk"
    /\ heap[root].order = "Post" /\ heap[heap[root].rule].cls = "MySimplify"
    /\ walked.op = "set_verbose" /\ walked.pass = root /\ walked.state
    /\ walked.cascade /\ walked.exclude = {}
    /\ history[1].in = MyAdd(MyInt(0), MyInt(1))
    /\ history[1].out = MyInt(1)
    /\ Len(Printed) = 12
    /\ Printed[10] = Line("Running", heap[root].rule, MyAdd(MyInt(0), MyInt(1)))
    /\ Printed[11] = Line("Completed", heap[root].rule, MyAdd(MyInt(0), MyInt(1)))
    /\ Printed[12] = Line("Completed", root, MyAdd(MyInt(0), MyInt(1)))


-----------------------------------------------------------------------------
(* Match: patterns, matching and substitution (match.py) *)

\* the syntax trees of patterns, as ast.parse gives them: a call with the
\* names of its function (one, or those of a Union[...]), its positional
\* arguments and its keywords; a name; a constant; and the Module and Expr
\* nodes around the expression of a source text
PCall(func, args, kw) ==
    [t |-> "Call", func |-> func, id |-> "", args |-> args, kw |-> kw]
PName(id) == [t |-> "Name", func |-> {}, id |-> id, args |-> <<>>, kw |-> <<>>]
PConstant(value) ==
    [t |-> "Constant", func |-> {}, id |-> value, args |-> <<>>, kw |-> <<>>]
PExpr(value) == [t |-> "Expr", func |-> {}, id |-> "", args |-> <<value>>, kw |-> <<>>]
PModule(body) == [t |-> "Module", func |-> {}, id |-> "", args |-> body, kw |-> <<>>]
Keyword(name, value) == [arg |-> name, value |-> value]

\* ast.parse of the text of an expression
Parse(expr) == PModule(<<PExpr(expr)>>)

\* the position of a named field among the children of a node, 0 if the
\* node has no such field
FieldIndex(model, name) ==
    CASE model.k = "MyAdd" /\ name = "left" -> 1
      [] model.k = "MyAdd" /\ name = "right" -> 2
      [] model.k = "MyInt" /\ name = "x" -> 1
      [] OTHER -> 0

\* what a step of matching or substitution yields: a value, or an exception
Raise(exc) == [raised |-> exc, state |-> FALSE, variables |-> <<>>, out |-> None]
MatchResult(state, variables) ==
    [raised |-> "", state |-> state, variables |-> variables, out |-> None]
Value(out) == [raised |-> "", state |-> TRUE, variables |-> <<>>, out |-> out]

\* _reduce_pattern: Module and Expr are unwrapped down to a call; anything
\* else is a TypeError
RECURSIVE ReducePattern(_)
ReducePattern(pattern) ==
    CASE pattern.t = "Call" -> Value(pattern)
      [] pattern.t \in {"Module", "Expr"} -> ReducePattern(pattern.args[1])
      [] OTHER -> Raise("TypeError")

\* the names bound so far, in the order of insertion of the dict
BoundNames(variables) == {variables[i].id : i \in DOMAIN variables}

\* dict.update with one binding
Update(variables, id, value) ==
    IF id \in BoundNames(variables)
    THEN [i \in DOMAIN variables |->
            IF variables[i].id = id THEN [id |-> id, value |-> value]
            ELSE variables[i]]
    ELSE Append(variables, [id |-> id, value |-> value])

\* MatchResult.add: `dict(**self.variables, **other.variables)` is a
\* TypeError when a name is bound on both sides
Add(result, other) ==
    IF ~(result.state /\ other.state) THEN MatchResult(FALSE, result.variables)
    ELSE IF BoundNames(result.variables) \cap BoundNames(other.variables) # {}
         THEN Raise("TypeError")
         ELSE MatchResult(TRUE, result.variables \o other.variables)

\* the kinds of the pattern meet the classes of the model
KindMatches(pattern, model) == pattern.func \cap Range(KindChain(model)) # {}

\* _MatchPattern.generic_map: the positional arguments bind the model, the
\* keywords are taken in order
RECURSIVE MatchPattern(_, _)
RECURSIVE MatchKeywords(_, _, _, _)
MatchKeywords(kw, i, model, result) ==
    IF i > Len(kw) \/ result.raised # "" THEN result
    ELSE LET k == kw[i]
             f == FieldIndex(model, k.arg)
         IN  CASE k.value.t = "Call" /\ f = 0 -> Raise("AttributeError")
               [] k.value.t = "Call" ->
                    LET sub == MatchPattern(k.value, model.c[f])
                    IN  IF sub.raised # "" THEN sub
                        ELSE MatchKeywords(kw, i + 1, model, Add(result, sub))
               [] k.value.t = "Constant" /\ k.value.id = "Ellipsis" ->
                    MatchKeywords(kw, i + 1, model, result)
               [] k.value.t = "Name" /\ f = 0 -> Raise("AttributeError")
               [] k.value.t = "Name" ->
                    MatchKeywords(kw, i + 1, model,
                        MatchResult(result.state,
                            Update(result.variables, k.value.id, model.c[f])))
               [] OTHER -> Raise("TypeError")
MatchPattern(pattern, model) ==
    IF KindMatches(pattern, model)
    THEN IF \E a \in Range(pattern.args) : a.t # "Name"
         THEN Raise("TypeError")
         ELSE MatchKeywords(pattern.kw, 1, model,
                MatchResult(TRUE,
                    [i \in DOMAIN pattern.args |->
                        [id |-> pattern.args[i].id, value |-> model]]))
    ELSE MatchResult(FALSE, <<>>)

\* the value a name is bound to
Lookup(variables, id) ==
    LET i == CHOOSE j \in DOMAIN variables : variables[j].id = id
    IN  variables[i].value

\* `self.pattern = k.value` in _MatchSubstitute.generic_map: the setter
\* reduces the value, a call or a name, with _reduce_pattern
SubstitutePattern(value) == ReducePattern(value)

\* _MatchSubstitute.generic_map on a deep copy of the model
RECURSIVE MatchSubstitute(_, _, _)
RECURSIVE SubstituteKeywords(_, _, _, _, _)
SubstituteKeywords(kw, i, substitutions, model, new_model) ==
    IF i > Len(kw) THEN Value(new_model)
    ELSE LET k == kw[i]
             f == FieldIndex(model, k.arg)
         IN  CASE k.value.t \in {"Call", "Name"} ->
                    LET reduced == SubstitutePattern(k.value)
                    IN  IF reduced.raised # "" THEN reduced
                        ELSE IF f = 0 THEN Raise("AttributeError")
                        ELSE LET sub == MatchSubstitute(reduced.out, substitutions,
                                                        model.c[f])
                             IN  IF sub.raised # "" THEN sub
                                 ELSE SubstituteKeywords(kw, i + 1, substitutions, model,
                                        [new_model EXCEPT !.c[f] = sub.out])
               [] k.value.t = "Constant" /\ k.value.id = "Ellipsis" ->
                    SubstituteKeywords(kw, i + 1, substitutions, model, new_model)
               [] OTHER -> Raise("TypeError")
MatchSubstitute(pattern, substitutions, model) ==
    CASE pattern.t = "Name" -> Raise("AttributeError")
      [] ~KindMatches(pattern, model) -> Raise("ValueError")
      [] pattern.args # <<>> /\ pattern.args[1].t = "Name" ->
            Value(Lookup(substitutions, pattern.args[1].id))
      [] pattern.args # <<>> -> Raise("TypeError")
      [] OTHER -> SubstituteKeywords(pattern.kw, 1, substitutions, model, model)

\* the passes given to Match
MatchRules == {"Incr", "Simplify"}

\* rule(v): the user pass Incr, or Post(MySimplify())
ApplyPass(rule, model) ==
    IF rule = "Incr" THEN CallResult(model, UserMap("Incr", model))
    ELSE Walk("Post", "MySimplify", model)

\* Match.match: the pattern is reduced when the matcher is built, the rule
\* is applied to every variable of a successful match, and the results are
\* substituted; applied lists the models the rule was invoked on
MatchMap(pattern, rule, model) ==
    LET reduced == ReducePattern(pattern)
        result == MatchPattern(reduced.out, model)
        substitutions ==
            [i \in DOMAIN result.variables |->
                [id |-> result.variables[i].id,
                 value |-> ApplyPass(rule, result.variables[i].value)]]
        applied == [i \in DOMAIN result.variables |-> result.variables[i].value]
        new == MatchSubstitute(reduced.out, substitutions, model)
    IN  CASE reduced.raised # "" ->
                [raised |-> reduced.raised, phase |-> "reduce", out |-> None,
                 applied |-> <<>>]
          [] result.raised # "" ->
                [raised |-> result.raised, phase |-> "match", out |-> None,
                 applied |-> <<>>]
          [] ~result.state ->
                [raised |-> "", phase |-> "match", out |-> model, applied |-> <<>>]
          [] OTHER ->
                [raised |-> new.raised, phase |-> "substitute", out |-> new.out,
                 applied |-> applied]

NameX == PName("x")
NameY == PName("y")
Ellipsis == PConstant("Ellipsis")

\* patterns of the grammar: Kind(x), Kind(f=x), Kind(f=Sub(x)), Kind(f=...)
GrammarPatterns ==
    {PCall(K, <<NameX>>, <<>>) :
        K \in {{"MyAdd"}, {"MyInt"}, {"MyMath"}, {"MyAdd", "MyInt"}, {"int"}}}
    \cup {PCall({"MyAdd"}, <<>>, kw) :
            kw \in {<<>>,
                    <<Keyword("left", NameX)>>,
                    <<Keyword("right", NameY)>>,
                    <<Keyword("left", NameX), Keyword("right", NameY)>>,
                    <<Keyword("left", Ellipsis)>>,
                    <<Keyword("left", Ellipsis), Keyword("right", NameY)>>,
                    <<Keyword("left", PCall({"MyInt"}, <<NameX>>, <<>>))>>,
                    <<Keyword("left", PCall({"MyAdd"}, <<NameX>>, <<>>))>>,
                    <<Keyword("left", PCall({"MyInt"}, <<NameX>>, <<>>)),
                      Keyword("right", PCall({"MyMath"}, <<NameY>>, <<>>))>>,
                    <<Keyword("left", Ellipsis),
                      Keyword("right", PCall({"MyAdd"}, <<NameY>>, <<>>))>>,
                    <<Keyword("left",
                        PCall({"MyAdd"}, <<>>,
                              <<Keyword("right", PCall({"MyInt"}, <<NameX>>, <<>>))>>))>>,
                    <<Keyword("left",
                        PCall({"MyAdd"}, <<>>, <<Keyword("right", NameX)>>))>>}}
    \cup {PCall({"MyInt"}, <<>>, <<Keyword("x", NameX)>>),
          PCall({"MyInt"}, <<>>, <<Keyword("x", PCall({"int"}, <<NameX>>, <<>>))>>)}

\* patterns with a construct outside the grammar: not a call at the top, a
\* positional argument that is not a name, a keyword value that is neither
\* a call, a name nor an ellipsis
UnsupportedPatterns ==
    {NameX, PConstant("1"),
     PCall({"MyAdd"}, <<PConstant("1")>>, <<>>),
     PCall({"MyAdd"}, <<PCall({"MyInt"}, <<NameX>>, <<>>)>>, <<>>),
     PCall({"MyAdd"}, <<>>, <<Keyword("left", PConstant("1"))>>),
     PCall({"MyInt"}, <<>>, <<Keyword("x", PConstant("1"))>>),
     PCall({"MyAdd"}, <<>>,
           <<Keyword("left", PCall({"MyInt"}, <<PConstant("1")>>, <<>>))>>)}

Patterns == GrammarPatterns \cup UnsupportedPatterns

MatchInputs == Inputs \cup RewriteInputs

\* Match(pattern, rule)(node)
MatchApply ==
    /\ walked.op = "none"
    /\ \E pattern \in Patterns, rule \in MatchRules :
          LET r == MatchMap(Parse(pattern), rule, walked.node)
          IN  walked' = [op |-> "match", pattern |-> pattern, rule |-> rule,
                         before |-> walked.node, node |-> walked.node,
                         raised |-> r.raised, phase |-> r.phase, out |-> r.out,
                         applied |-> r.applied]
    /\ UNCHANGED <<passVars, cacheVars>>

MatchInit ==
    /\ heap = <<>> /\ caches = <<>> /\ stack = <<>> /\ root = 0
    /\ history = <<>> /\ arg = None /\ invocations = 0 /\ log = <<>>
    /\ NoStore
    /\ \E node \in MatchInputs : walked = [op |-> "none", node |-> node]

MatchNext == MatchApply

MatchSpec == MatchInit /\ [][MatchNext]_vars

\* the pattern matches the node: their kinds meet, and so for every keyword
\* with a sub-pattern and the field it names
RECURSIVE PatternMatches(_, _)
PatternMatches(pattern, model) ==
    /\ KindMatches(pattern, model)
    /\ \A i \in DOMAIN pattern.kw :
          pattern.kw[i].value.t = "Call" =>
              /\ FieldIndex(model, pattern.kw[i].arg) # 0
              /\ PatternMatches(pattern.kw[i].value,
                                model.c[FieldIndex(model, pattern.kw[i].arg)])

\* the node with the rule applied at every position the pattern binds
RECURSIVE Substituted(_, _, _)
Substituted(pattern, rule, model) ==
    IF pattern.args # <<>> THEN ApplyPass(rule, model)
    ELSE [model EXCEPT !.c =
            [f \in DOMAIN model.c |->
                LET ks == {i \in DOMAIN pattern.kw :
                             /\ FieldIndex(model, pattern.kw[i].arg) = f
                             /\ pattern.kw[i].value.t \in {"Name", "Call"}}
                    value == pattern.kw[CHOOSE i \in ks : TRUE].value
                IN  CASE ks = {} -> model.c[f]
                      [] value.t = "Name" -> ApplyPass(rule, model.c[f])
                      [] OTHER -> Substituted(value, rule, model.c[f])]]

\* some keyword of the pattern, at any depth, binds a bare name
RECURSIVE HasNameKeyword(_)
HasNameKeyword(pattern) ==
    \E i \in DOMAIN pattern.kw :
        \/ pattern.kw[i].value.t = "Name"
        \/ pattern.kw[i].value.t = "Call" /\ HasNameKeyword(pattern.kw[i].value)

(* C22: Match(pattern, p)(m) returns m unchanged, without invoking p, when *)
(* the pattern does not match m; when it matches, it returns a node equal  *)
(* to m except that every position bound by the pattern (the whole node    *)
(* for Kind(x), field f for Kind(f=x) with a bare name x, the nested       *)
(* position for Kind(f=Sub(x))) holds p applied to the sub-node originally *)
(* at that position, and m itself is left unmodified.                      *)
C22_MatchSubstitutes ==
    (walked.op = "match" /\ walked.pattern \in GrammarPatterns) =>
        /\ walked.raised = ""
        /\ walked.node = walked.before
        /\ IF PatternMatches(walked.pattern, walked.before)
           THEN walked.out = Substituted(walked.pattern, walked.rule, walked.before)
           ELSE walked.out = walked.before /\ walked.applied = <<>>

\* the same for the patterns without a bare name as a keyword value
MatchSubstitutesButNames ==
    (/\ walked.op = "match" /\ walked.pattern \in GrammarPatterns
     /\ ~HasNameKeyword(walked.pattern)) =>
        /\ walked.raised = ""
        /\ walked.node = walked.before
        /\ IF PatternMatches(walked.pattern, walked.before)
           THEN walked.out = Substituted(walked.pattern, walked.rule, walked.before)
           ELSE walked.out = walked.before /\ walked.applied = <<>>

\* a matching pattern with a bare name as a keyword value: the substitution
\* raises TypeError
MatchRaisesOnNames ==
    (/\ walked.op = "match" /\ walked.pattern \in GrammarPatterns
     /\ HasNameKeyword(walked.pattern)
     /\ PatternMatches(walked.pattern, walked.before)) =>
        walked.raised = "TypeError" /\ walked.phase = "substitute"

(* C23: a pattern containing an unsupported construct (a top-level         *)
(* expression that is not a call, a positional argument that is not a bare *)
(* name, a keyword value that is not a call, a bare name or an ellipsis)   *)
(* is rejected with a TypeError when the pattern is compiled, before any   *)
(* node is matched against it and whatever the kind of the model it is     *)
(* later applied to.                                                       *)
C23_RejectedWhenCompiled ==
    (walked.op = "match" /\ walked.pattern \in UnsupportedPatterns) =>
        walked.raised = "TypeError" /\ walked.phase = "reduce"

\* what the code does: only an expression that is not a call is rejected
\* when the matcher is built; a construct inside a call is met when a node
\* of the kind of that call is matched, and a node of another kind is
\* returned as it is
UnsupportedMetWhileMatching ==
    (walked.op = "match" /\ walked.pattern \in UnsupportedPatterns) =>
        CASE walked.pattern.t # "Call" ->
                walked.raised = "TypeError" /\ walked.phase = "reduce"
          [] ~KindMatches(walked.pattern, walked.before) ->
                walked.raised = "" /\ walked.out = walked.before
          [] OTHER -> walked.phase = "match"


====
